---- MODULE Spec2Model ----
(***************************************************************************)
(* State-machine model of mcast-bridge: the IGMP control plane (igmp.c),   *)
(* the event manager (evm.c), the bridge interface activation layer        *)
(* (interface.c), the config validation (config.c) and the data plane      *)
(* (bridge.c).  One IGMP interface and one bridge instance are modelled.   *)
(* Time is in milliseconds; callbacks are atomic (the loop is single       *)
(* threaded and callbacks never yield).                                    *)
(***************************************************************************)
EXTENDS Integers, Sequences, FiniteSets, TLC

VARIABLES
    igmp_querier_mode,      \* configured querier mode (never changes)
    querier_addr,           \* igmp_interface->querier_addr
    querier_robustness,
    querier_interval_sec,
    querier_response_interval_tenths,
    querier_lastmbr_interval_tenths,
    mrd_initial_advertisements_remaining,
    startup_queries_remaining,
    group_list,             \* array of group_list_allocated group records
    group_list_count,
    group_list_fixed_limit,
    timer_list,             \* evm->timer_list[0 .. timer_list_count-1]
    now,                    \* CLOCK_MONOTONIC, milliseconds
    draining,               \* evm_loop is in its timer dispatch phase
    interface_list,         \* bridge->interface_list (one bridge instance)
    sent,                   \* packets injected / datagrams forwarded by the last callback
    obs                     \* history: the last callback and what the election has seen

vars == <<igmp_querier_mode, querier_addr, querier_robustness, querier_interval_sec,
          querier_response_interval_tenths, querier_lastmbr_interval_tenths,
          mrd_initial_advertisements_remaining, startup_queries_remaining,
          group_list, group_list_count, group_list_fixed_limit,
          timer_list, now, draining, interface_list, sent, obs>>

igmp_vars == <<igmp_querier_mode, querier_addr, querier_robustness, querier_interval_sec,
               querier_response_interval_tenths, querier_lastmbr_interval_tenths,
               mrd_initial_advertisements_remaining, startup_queries_remaining,
               group_list, group_list_count, group_list_fixed_limit,
               timer_list, now, draining>>

-----------------------------------------------------------------------------
(* Bounds of the model *)

\* number of interfaces of the bridge instance explored by SpecBridge
NumIf == 3
\* non_configured_groups: dynamic slots per IGMP interface
NonConfiguredGroups == 1
\* the clock stops advancing here
MaxTime == 2100

-----------------------------------------------------------------------------
(* Program constants *)

INTERFACE_CONFIG_NONE == 0
INTERFACE_CONFIG_DYNAMIC == 1
INTERFACE_CONFIG_STATIC == 2
INTERFACE_CONFIG_FORCED == 3

QUERIER_MODE_NEVER == 0
QUERIER_MODE_QUICK == 1
QUERIER_MODE_DELAY == 2
QUERIER_MODE_DEFER == 3

MCB_IGMP_ROBUSTNESS == 2
MCB_IGMP_QUERY_INTERVAL == 125
MCB_IGMP_RESPONSE_INTERVAL == 100
MCB_IGMP_LASTMBR_INTERVAL == 10
GRACE_MILLIS == 10
MCB_MRD_INTERVAL == 20
MCB_MRD_INTERVAL_JITTER == 500
MCB_MRD_INITIAL_INTERVAL == 2
MCB_MRD_INITIAL_COUNT == 3
\* start_igmp: delayed activation timer of the Delay and Defer modes
DELAY_ACTIVATION_MILLIS == 125500

-----------------------------------------------------------------------------
(* config.c: the interface configurations accepted by the validation *)

\* the draft configuration types the config parser can assign
DraftTypes == {INTERFACE_CONFIG_NONE, INTERFACE_CONFIG_DYNAMIC, INTERFACE_CONFIG_STATIC}

\* add_draft_interface is only called for an interface named in one of the lists
DraftBridges(n) ==
    { d \in [1..n -> [inbound_configuration : DraftTypes, outbound_configuration : DraftTypes]] :
        \A i \in 1..n : d[i].inbound_configuration # INTERFACE_CONFIG_NONE
                        \/ d[i].outbound_configuration # INTERFACE_CONFIG_NONE }

validate_draft_bridge(d) ==
    LET n == Len(d)
        inbound == {i \in 1..n : d[i].inbound_configuration # INTERFACE_CONFIG_NONE}
        outbound == {i \in 1..n : d[i].outbound_configuration # INTERFACE_CONFIG_NONE}
    IN  /\ Cardinality(inbound) # 0
        /\ Cardinality(outbound) # 0
        /\ Cardinality(inbound) = 1 =>
              \A i \in inbound : d[i].outbound_configuration = INTERFACE_CONFIG_NONE
        /\ Cardinality(outbound) = 1 =>
              \A i \in outbound : d[i].inbound_configuration = INTERFACE_CONFIG_NONE

\* add_bridge: copy the interfaces; a static outbound interface forces the
\* dynamic inbound configuration of every other interface to FORCED
add_bridge(d) ==
    [i \in 1..Len(d) |->
        [inbound_configuration |->
            IF /\ d[i].inbound_configuration = INTERFACE_CONFIG_DYNAMIC
               /\ \E o \in 1..Len(d) : o # i /\ d[o].outbound_configuration = INTERFACE_CONFIG_STATIC
            THEN INTERFACE_CONFIG_FORCED
            ELSE d[i].inbound_configuration,
         outbound_configuration |-> d[i].outbound_configuration,
         inbound_active |-> 0,
         outbound_active |-> 0]]

-----------------------------------------------------------------------------
(* interface.c: activation of bridge interfaces *)

interface_activate_inbound(il, i) ==
    IF il[i].inbound_active # 0 THEN il
    ELSE [il EXCEPT ![i].inbound_active = 1]

interface_deactivate_inbound(il, i) ==
    IF il[i].inbound_active = 0 THEN il
    ELSE IF il[i].inbound_configuration # INTERFACE_CONFIG_DYNAMIC THEN il
    ELSE [il EXCEPT ![i].inbound_active = 0]

\* interface_activate_outbound testing the inbound flag of the interface
interface_activate_outbound_tests_inbound(il, h) ==
    IF il[h].inbound_active # 0 THEN il
    ELSE [p \in 1..Len(il) |->
            IF p = h THEN [il[p] EXCEPT !.outbound_active = 1]
            ELSE IF il[p].inbound_configuration = INTERFACE_CONFIG_DYNAMIC
                 THEN interface_activate_inbound(il, p)[p]
                 ELSE il[p]]

interface_activate_outbound(il, h) ==
    IF il[h].outbound_active # 0 THEN il
    ELSE [p \in 1..Len(il) |->
            IF p = h THEN [il[p] EXCEPT !.outbound_active = 1]
            ELSE IF il[p].inbound_configuration = INTERFACE_CONFIG_DYNAMIC
                 THEN interface_activate_inbound(il, p)[p]
                 ELSE il[p]]

\* interface_deactivate_outbound deactivating every dynamic inbound peer,
\* whether or not another outbound interface is active
interface_deactivate_outbound_every_peer(il, h) ==
    IF il[h].outbound_active = 0 THEN il
    ELSE IF il[h].outbound_configuration # INTERFACE_CONFIG_DYNAMIC THEN il
    ELSE LET il1 == [il EXCEPT ![h].outbound_active = 0]
         IN  [p \in 1..Len(il) |->
                IF p = h \/ il1[p].inbound_configuration # INTERFACE_CONFIG_DYNAMIC
                THEN il1[p]
                ELSE interface_deactivate_inbound(il1, p)[p]]

interface_deactivate_outbound(il, h) ==
    IF il[h].outbound_active = 0 THEN il
    ELSE IF il[h].outbound_configuration # INTERFACE_CONFIG_DYNAMIC THEN il
    ELSE LET il1 == [il EXCEPT ![h].outbound_active = 0]
         IN  [p \in 1..Len(il) |->
                IF p = h \/ il1[p].inbound_configuration # INTERFACE_CONFIG_DYNAMIC
                THEN il1[p]
                ELSE IF \E p2 \in 1..Len(il) : p2 # p /\ il1[p2].outbound_active # 0
                     THEN il1[p]
                     ELSE interface_deactivate_inbound(il1, p)[p]]

\* the second loop of initialize_interfaces, interfaces i..Len(il)
RECURSIVE initialize_from(_, _)
initialize_from(il, i) ==
    IF i > Len(il) THEN il
    ELSE LET il1 == IF il[i].inbound_configuration # INTERFACE_CONFIG_DYNAMIC
                    THEN interface_activate_inbound(il, i)
                    ELSE il
             il2 == IF il1[i].outbound_configuration = INTERFACE_CONFIG_DYNAMIC
                    THEN il1     \* igmp_register_interface: no flag changes
                    ELSE interface_activate_outbound(il1, i)
         IN  initialize_from(il2, i + 1)

initialize_interfaces(il) == initialize_from(il, 1)

\* the handles igmp_register_interface is called with
Registered(il) == {h \in 1..Len(il) : il[h].outbound_configuration = INTERFACE_CONFIG_DYNAMIC}

\* every bridge the program can run after read_config and initialize_interfaces
InitialBridges(n) ==
    { initialize_interfaces(add_bridge(d)) : d \in {x \in DraftBridges(n) : validate_draft_bridge(x)} }

-----------------------------------------------------------------------------
(* bridge.c: the data plane *)

\* the peers bridge_receive sends the datagram read from interface x to
\* bridge_receive without the test for the receiving interface in its loop
\* over the peers
bridge_forward_set_with_self(il, x) ==
    IF il[x].inbound_active = 0 THEN {}
    ELSE {p \in 1..Len(il) : il[p].outbound_active # 0}

bridge_forward_set(il, x) ==
    IF il[x].inbound_active = 0 THEN {}
    ELSE {p \in 1..Len(il) : p # x /\ il[p].outbound_active # 0}

-----------------------------------------------------------------------------
(* Addresses: four bytes in network order, compared with memcmp *)

IfAddr == <<10, 0, 0, 3>>            \* igmp_interface->if_addr
LowAddr == <<10, 0, 0, 1>>           \* a remote querier below the local address
HighAddr == <<10, 0, 0, 9>>          \* a remote querier above the local address
AllOnes == <<255, 255, 255, 255>>    \* MCB_IP4_ADDR_SET(querier_addr, 0xff)
any_addr == <<0, 0, 0, 0>>           \* MCB_IP4_ANY
FixedGroup == <<239, 0, 75, 0>>      \* the bridge's ipv4 multicast address
DynGroupA == <<239, 1, 1, 1>>        \* groups nobody configured
DynGroupB == <<239, 1, 1, 2>>
LinkLocalGroup == <<224, 0, 0, 251>> \* a group in 224.0.0.0/24

\* memcmp over MCB_IP4_ADDR_LEN bytes: <0, 0 or >0
RECURSIVE memcmp_from(_, _, _)
memcmp_from(a, b, i) ==
    IF i > Len(a) THEN 0
    ELSE IF a[i] < b[i] THEN -1
    ELSE IF a[i] > b[i] THEN 1
    ELSE memcmp_from(a, b, i + 1)

MCB_IP4_ADDR_CMP(a, b) == memcmp_from(a, b, 1)

\* 2^n
RECURSIVE Pow2(_)
Pow2(n) == IF n = 0 THEN 1 ELSE 2 * Pow2(n - 1)

\* util.c: (mant | 0x10) << (exp + 3) for codes >= 128, truncated to uint16_t
timecode_8bit_decode(code) ==
    IF code < 128 THEN code
    ELSE LET exponent == ((code \div 16) % 8) + 3
             mantissa == (code % 16) + 16
         IN  (mantissa * Pow2(exponent)) % 65536

\* timecode_16bit_decode with the return type of timecode_8bit_decode
timecode_16bit_decode_narrow(code) ==
    IF code < 32768 THEN code
    ELSE LET exponent == ((code \div 4096) % 8) + 3
             mantissa == (code % 4096) + 4096
         IN  (mantissa * Pow2(exponent)) % 65536

\* util.c: (mant | 0x1000) << (exp + 3) for codes >= 32768, truncated to
\* uint32_t: the low and the high 16 bits of the product
timecode_16bit_decode(code) ==
    IF code < 32768 THEN code
    ELSE LET exponent == ((code \div 4096) % 8) + 3
             mantissa == (code % 4096) + 4096
             low == (mantissa * Pow2(exponent)) % 65536
             high == ((mantissa * Pow2(exponent)) \div 65536) % 65536
         IN  high * 65536 + low

-----------------------------------------------------------------------------
(* evm.c: the timer list *)

\* the closure of the per-interface timers (the igmp_interface pointer)
IfClosure == 0

\* initialize_igmp: igmp_interface_list_count * 2 + total_groups * 2
timer_list_allocated(allocated_groups) == 1 * 2 + allocated_groups * 2

\* index of the first timer that expires strictly after deadline, or Len + 1
RECURSIVE insert_index(_, _, _)
insert_index(tl, deadline, index) ==
    IF index > Len(tl) THEN index
    ELSE IF deadline < tl[index].deadline THEN index
    ELSE insert_index(tl, deadline, index + 1)

evm_add_timer(tl, capacity, clock, millis, callback, closure) ==
    IF Len(tl) >= capacity THEN tl
    ELSE LET index == insert_index(tl, clock + millis, 1)
             timer == [callback |-> callback, closure |-> closure,
                       deadline |-> clock + millis, millis |-> millis]
         IN  SubSeq(tl, 1, index - 1) \o <<timer>> \o SubSeq(tl, index, Len(tl))

\* index of the first timer with this callback and closure, or 0
RECURSIVE find_timer(_, _, _, _)
find_timer(tl, callback, closure, index) ==
    IF index > Len(tl) THEN 0
    ELSE IF tl[index].callback = callback /\ tl[index].closure = closure THEN index
    ELSE find_timer(tl, callback, closure, index + 1)

evm_del_timer(tl, callback, closure) ==
    LET index == find_timer(tl, callback, closure, 1)
    IN  IF index = 0 THEN tl
        ELSE SubSeq(tl, 1, index - 1) \o SubSeq(tl, index + 1, Len(tl))

\* the timers outstanding for a (callback, closure) pair
TimersOf(tl, callback, closure) ==
    {i \in 1..Len(tl) : tl[i].callback = callback /\ tl[i].closure = closure}

-----------------------------------------------------------------------------
(* igmp.c.  The handlers are functions of a record s holding the interface, *)
(* its group list, the timer list, the bridge interfaces and the packets    *)
(* injected so far by the running callback (s.sent); s.now is the clock.    *)

\* s.timers_exceeded: evm_add_timer logged "Number of timers exceeded"
AddTimer(s, millis, callback, closure) ==
    [s EXCEPT !.timer_list =
        evm_add_timer(@, timer_list_allocated(Len(s.group_list)), s.now, millis, callback, closure),
              !.timers_exceeded =
        @ \/ Len(s.timer_list) >= timer_list_allocated(Len(s.group_list))]

DelTimer(s, callback, closure) ==
    [s EXCEPT !.timer_list = evm_del_timer(@, callback, closure)]

\* pcap_inject of one of the prebuilt packets
Inject(s, packet) == [s EXCEPT !.sent = Append(@, packet)]

\* igmp_send_mrd_advertisement never leaving the startup mode
igmp_send_mrd_advertisement_startup_only(s, r) ==
    LET s1 == Inject(s, [type |-> "mrd_advertisement"])
    IN  IF s1.mrd_initial_advertisements_remaining # 0
        THEN AddTimer(s1, r % (MCB_MRD_INITIAL_INTERVAL * 1000),
                      "igmp_send_mrd_advertisement", IfClosure)
        ELSE AddTimer(s1,
                      ((MCB_MRD_INTERVAL * 1000) - MCB_MRD_INTERVAL_JITTER)
                          + (r % (MCB_MRD_INTERVAL_JITTER * 2)),
                      "igmp_send_mrd_advertisement", IfClosure)

\* r is the value rand() returns
igmp_send_mrd_advertisement(s, r) ==
    LET s1 == Inject(s, [type |-> "mrd_advertisement"])
    IN  IF s1.mrd_initial_advertisements_remaining # 0
        THEN AddTimer([s1 EXCEPT !.mrd_initial_advertisements_remaining = @ - 1],
                      r % (MCB_MRD_INITIAL_INTERVAL * 1000),
                      "igmp_send_mrd_advertisement", IfClosure)
        ELSE AddTimer(s1,
                      ((MCB_MRD_INTERVAL * 1000) - MCB_MRD_INTERVAL_JITTER)
                          + (r % (MCB_MRD_INTERVAL_JITTER * 2)),
                      "igmp_send_mrd_advertisement", IfClosure)

igmp_send_general_query(s) ==
    LET s1 == Inject(s, [type |-> "general_query"])
        millis == s1.querier_interval_sec * 1000
    IN  IF s1.startup_queries_remaining # 0
        THEN AddTimer([s1 EXCEPT !.startup_queries_remaining = @ - 1],
                      millis \div 4, "igmp_send_general_query", IfClosure)
        ELSE AddTimer(s1, millis, "igmp_send_general_query", IfClosure)

send_group_specific_query(s, g) ==
    LET group == s.group_list[g]
        s_flag == IF group.group_queries_remaining = s.querier_robustness THEN 0 ELSE 1
        s1 == Inject(s, [type |-> "group_query", group |-> group.mcast_addr,
                         s_flag |-> s_flag, slot |-> g])
        s2 == [s1 EXCEPT !.group_list[g].group_queries_remaining = @ - 1]
    IN  IF s2.group_list[g].group_queries_remaining # 0
        THEN AddTimer(s2, s2.querier_lastmbr_interval_tenths * 100,
                      "send_group_specific_query", g)
        ELSE s2

\* igmp_activate_querier_mode counting the immediate query as still to come
igmp_activate_querier_mode_one_more(s) ==
    igmp_send_general_query(
        [s EXCEPT !.querier_robustness = MCB_IGMP_ROBUSTNESS,
                  !.querier_interval_sec = MCB_IGMP_QUERY_INTERVAL,
                  !.querier_response_interval_tenths = MCB_IGMP_RESPONSE_INTERVAL,
                  !.querier_lastmbr_interval_tenths = MCB_IGMP_LASTMBR_INTERVAL,
                  !.querier_addr = IfAddr,
                  !.startup_queries_remaining = MCB_IGMP_ROBUSTNESS])

igmp_activate_querier_mode(s) ==
    igmp_send_general_query(
        [s EXCEPT !.querier_robustness = MCB_IGMP_ROBUSTNESS,
                  !.querier_interval_sec = MCB_IGMP_QUERY_INTERVAL,
                  !.querier_response_interval_tenths = MCB_IGMP_RESPONSE_INTERVAL,
                  !.querier_lastmbr_interval_tenths = MCB_IGMP_LASTMBR_INTERVAL,
                  !.querier_addr = IfAddr,
                  !.startup_queries_remaining = MCB_IGMP_ROBUSTNESS - 1])

\* igmp_querier_timeout without the test for the never mode
igmp_querier_timeout_any_mode(s) == igmp_activate_querier_mode(s)

\* igmp_querier_timeout taking the querier role with the parameters last
\* recorded
igmp_querier_timeout_keeps_parameters(s) ==
    IF s.mode # QUERIER_MODE_NEVER
    THEN igmp_send_general_query(
             [s EXCEPT !.querier_addr = IfAddr,
                       !.startup_queries_remaining = MCB_IGMP_ROBUSTNESS - 1])
    ELSE [s EXCEPT !.querier_addr = AllOnes]

\* igmp_querier_timeout taking the querier role without sending a query
igmp_querier_timeout_no_query(s) ==
    IF s.mode # QUERIER_MODE_NEVER
    THEN [s EXCEPT !.querier_robustness = MCB_IGMP_ROBUSTNESS,
                   !.querier_interval_sec = MCB_IGMP_QUERY_INTERVAL,
                   !.querier_response_interval_tenths = MCB_IGMP_RESPONSE_INTERVAL,
                   !.querier_lastmbr_interval_tenths = MCB_IGMP_LASTMBR_INTERVAL,
                   !.querier_addr = IfAddr]
    ELSE [s EXCEPT !.querier_addr = AllOnes]

igmp_querier_timeout(s) ==
    IF s.mode # QUERIER_MODE_NEVER
    THEN igmp_activate_querier_mode(s)
    ELSE [s EXCEPT !.querier_addr = AllOnes]

\* interface_deactivate_outbound on bridge_interface_list[index .. count]
RECURSIVE deactivate_all(_, _, _)
deactivate_all(il, handles, index) ==
    IF index > Len(handles) THEN il
    ELSE deactivate_all(interface_deactivate_outbound(il, handles[index]), handles, index + 1)

RECURSIVE activate_all(_, _, _)
activate_all(il, handles, index) ==
    IF index > Len(handles) THEN il
    ELSE activate_all(interface_activate_outbound(il, handles[index]), handles, index + 1)

\* the tightening loop of igmp_group_timeout; slot is the 1-based position
\* of group_index, count the current group_list_count
RECURSIVE tighten(_, _, _, _)
tighten(gl, fixed_limit, slot, count) ==
    IF slot - 1 > fixed_limit
    THEN IF gl[slot].active # 0 THEN count
         ELSE tighten(gl, fixed_limit, slot - 1, count - 1)
    ELSE count

\* igmp_group_timeout leaving the outbound interfaces active
igmp_group_timeout_keeps_outbound(s, g) ==
    LET s1 == [s EXCEPT !.group_list[g].active = 0]
    IN  IF Len(s1.group_list[g].bridge_interface_list) # 0
        THEN s1
        ELSE [s1 EXCEPT !.group_list_count =
                            tighten(s1.group_list, s1.fixed_limit, s1.group_list_count, @)]

igmp_group_timeout(s, g) ==
    LET s1 == [s EXCEPT !.group_list[g].active = 0]
    IN  IF Len(s1.group_list[g].bridge_interface_list) # 0
        THEN [s1 EXCEPT !.il = deactivate_all(@, s1.group_list[g].bridge_interface_list, 1)]
        ELSE [s1 EXCEPT !.group_list_count =
                            tighten(s1.group_list, s1.fixed_limit, s1.group_list_count, @)]

igmp_v1_host_timeout(s, g) ==
    [s EXCEPT !.group_list[g].v1_host_present = 0]

\* first slot in index..limit matching the predicate, or 0
RECURSIVE fixed_match(_, _, _, _)
fixed_match(gl, mcast_addr, index, limit) ==
    IF index > limit THEN 0
    ELSE IF MCB_IP4_ADDR_CMP(gl[index].mcast_addr, mcast_addr) = 0 THEN index
    ELSE fixed_match(gl, mcast_addr, index + 1, limit)

RECURSIVE dynamic_match(_, _, _, _)
dynamic_match(gl, mcast_addr, index, count) ==
    IF index > count THEN 0
    ELSE IF gl[index].active # 0 /\ MCB_IP4_ADDR_CMP(gl[index].mcast_addr, mcast_addr) = 0
         THEN index
    ELSE dynamic_match(gl, mcast_addr, index + 1, count)

RECURSIVE first_empty_slot(_, _, _)
first_empty_slot(gl, index, count) ==
    IF index > count THEN 0
    ELSE IF gl[index].active = 0 THEN index
    ELSE first_empty_slot(gl, index + 1, count)

\* igmp_interface_find_group without the test for the full group list: the
\* list grows by a record
igmp_interface_find_group_unbounded(s, mcast_addr) ==
    IF mcast_addr[1] = 224 /\ mcast_addr[2] = 0 /\ mcast_addr[3] = 0
    THEN [s |-> s, g |-> 0]
    ELSE LET fixed == fixed_match(s.group_list, mcast_addr, 1, s.fixed_limit)
             dynamic == dynamic_match(s.group_list, mcast_addr, s.fixed_limit + 1, s.group_list_count)
             empty == first_empty_slot(s.group_list, s.fixed_limit + 1, s.group_list_count)
             grown == IF s.group_list_count >= Len(s.group_list)
                      THEN Append(s.group_list,
                                  [mcast_addr |-> any_addr, active |-> 0, v1_host_present |-> 0,
                                   group_queries_remaining |-> 0, bridge_interface_list |-> <<>>])
                      ELSE s.group_list
         IN  IF fixed # 0 THEN [s |-> s, g |-> fixed]
             ELSE IF dynamic # 0 THEN [s |-> s, g |-> dynamic]
             ELSE IF empty # 0
                  THEN [s |-> [s EXCEPT !.group_list[empty].mcast_addr = mcast_addr],
                        g |-> empty]
             ELSE [s |-> [s EXCEPT !.group_list = [grown EXCEPT ![s.group_list_count + 1].mcast_addr = mcast_addr],
                                   !.group_list_count = @ + 1],
                   g |-> s.group_list_count + 1]

\* igmp_interface_find_group taking no note of an empty slot
igmp_interface_find_group_no_reuse(s, mcast_addr) ==
    IF mcast_addr[1] = 224 /\ mcast_addr[2] = 0 /\ mcast_addr[3] = 0
    THEN [s |-> s, g |-> 0]
    ELSE LET fixed == fixed_match(s.group_list, mcast_addr, 1, s.fixed_limit)
             dynamic == dynamic_match(s.group_list, mcast_addr, s.fixed_limit + 1, s.group_list_count)
         IN  IF fixed # 0 THEN [s |-> s, g |-> fixed]
             ELSE IF dynamic # 0 THEN [s |-> s, g |-> dynamic]
             ELSE IF s.group_list_count >= Len(s.group_list)
                  THEN [s |-> s, g |-> 0]
             ELSE [s |-> [s EXCEPT !.group_list[s.group_list_count + 1].mcast_addr = mcast_addr,
                                   !.group_list_count = @ + 1],
                   g |-> s.group_list_count + 1]

\* igmp_interface_find_group without the test for a link-local group
igmp_interface_find_group_any_scope(s, mcast_addr) ==
    LET fixed == fixed_match(s.group_list, mcast_addr, 1, s.fixed_limit)
        dynamic == dynamic_match(s.group_list, mcast_addr, s.fixed_limit + 1, s.group_list_count)
        empty == first_empty_slot(s.group_list, s.fixed_limit + 1, s.group_list_count)
    IN  IF fixed # 0 THEN [s |-> s, g |-> fixed]
        ELSE IF dynamic # 0 THEN [s |-> s, g |-> dynamic]
        ELSE IF empty # 0
             THEN [s |-> [s EXCEPT !.group_list[empty].mcast_addr = mcast_addr],
                   g |-> empty]
        ELSE IF s.group_list_count >= Len(s.group_list)
             THEN [s |-> s, g |-> 0]
        ELSE [s |-> [s EXCEPT !.group_list[s.group_list_count + 1].mcast_addr = mcast_addr,
                              !.group_list_count = @ + 1],
              g |-> s.group_list_count + 1]

\* returns the state and the slot found (0 for NULL)
igmp_interface_find_group(s, mcast_addr) ==
    IF mcast_addr[1] = 224 /\ mcast_addr[2] = 0 /\ mcast_addr[3] = 0
    THEN [s |-> s, g |-> 0]
    ELSE LET fixed == fixed_match(s.group_list, mcast_addr, 1, s.fixed_limit)
             dynamic == dynamic_match(s.group_list, mcast_addr, s.fixed_limit + 1, s.group_list_count)
             empty == first_empty_slot(s.group_list, s.fixed_limit + 1, s.group_list_count)
         IN  IF fixed # 0 THEN [s |-> s, g |-> fixed]
             ELSE IF dynamic # 0 THEN [s |-> s, g |-> dynamic]
             ELSE IF empty # 0
                  THEN [s |-> [s EXCEPT !.group_list[empty].mcast_addr = mcast_addr],
                        g |-> empty]
             ELSE IF s.group_list_count >= Len(s.group_list)
                  THEN [s |-> s, g |-> 0]
             ELSE [s |-> [s EXCEPT !.group_list[s.group_list_count + 1].mcast_addr = mcast_addr,
                                   !.group_list_count = @ + 1],
                   g |-> s.group_list_count + 1]

\* handle_igmp_mrd_solicitation leaving the scheduled advertisement in place
handle_igmp_mrd_solicitation_keeps_timer(s, r) ==
    igmp_send_mrd_advertisement(s, r)

handle_igmp_mrd_solicitation(s, r) ==
    igmp_send_mrd_advertisement(DelTimer(s, "igmp_send_mrd_advertisement", IfClosure), r)

\* the part of handle_igmp_query after the querier election: parameters,
\* querier timeout timer and group specific processing
query_record_and_rearm(s, q) ==
    LET s1 == IF q.v3_flag # 0
              THEN [s EXCEPT !.querier_robustness = q.qrv,
                             !.querier_interval_sec = timecode_8bit_decode(q.qqic),
                             !.querier_response_interval_tenths = timecode_8bit_decode(q.code)]
              ELSE s
        s2 == DelTimer(s1, "igmp_querier_timeout", IfClosure)
        s3 == AddTimer(s2, (s2.querier_robustness * s2.querier_interval_sec
                              + s2.querier_response_interval_tenths \div 20) * 1000,
                       "igmp_querier_timeout", IfClosure)
    IN  IF q.v3_flag # 0 /\ q.s_flag # 0 THEN s3
        ELSE IF MCB_IP4_ADDR_CMP(q.group, any_addr) = 0 THEN s3
        ELSE LET found == igmp_interface_find_group(s3, q.group)
                 g == found.g
                 s4 == found.s
             IN  IF g = 0 THEN s4
                 ELSE IF s4.group_list[g].active = 0 THEN s4
                 ELSE AddTimer(DelTimer(s4, "igmp_group_timeout", g),
                               s4.querier_robustness * s4.querier_response_interval_tenths * 100
                                   + GRACE_MILLIS,
                               "igmp_group_timeout", g)

\* new_querier = 1: adopt the source as the querier
query_new_querier(s, q) ==
    LET s1 == [s EXCEPT !.querier_addr = q.src]
    IN  IF q.v3_flag = 0
        THEN [s1 EXCEPT !.querier_robustness = MCB_IGMP_ROBUSTNESS,
                        !.querier_interval_sec = MCB_IGMP_QUERY_INTERVAL,
                        !.querier_response_interval_tenths = MCB_IGMP_RESPONSE_INTERVAL]
        ELSE s1

\* handle_igmp_query adopting every other source while passive
handle_igmp_query_adopt_any(s, q) ==
    IF MCB_IP4_ADDR_CMP(q.src, s.querier_addr) # 0
    THEN IF MCB_IP4_ADDR_CMP(s.querier_addr, IfAddr) = 0
         THEN IF \/ MCB_IP4_ADDR_CMP(q.src, IfAddr) < 0
                 \/ s.mode = QUERIER_MODE_DEFER
              THEN query_record_and_rearm(
                       query_new_querier(DelTimer(s, "igmp_send_general_query", IfClosure), q), q)
              ELSE s
         ELSE query_record_and_rearm(query_new_querier(s, q), q)
    ELSE query_record_and_rearm(s, q)

\* handle_igmp_query without the test for the defer mode
handle_igmp_query_no_defer(s, q) ==
    IF MCB_IP4_ADDR_CMP(q.src, s.querier_addr) # 0
    THEN IF MCB_IP4_ADDR_CMP(s.querier_addr, IfAddr) = 0
         THEN IF MCB_IP4_ADDR_CMP(q.src, IfAddr) < 0
              THEN query_record_and_rearm(
                       query_new_querier(DelTimer(s, "igmp_send_general_query", IfClosure), q), q)
              ELSE s
         ELSE IF MCB_IP4_ADDR_CMP(q.src, s.querier_addr) < 0
              THEN query_record_and_rearm(query_new_querier(s, q), q)
              ELSE query_record_and_rearm(s, q)
    ELSE query_record_and_rearm(s, q)

\* handle_igmp_query leaving the general query timer in place when yielding
handle_igmp_query_keeps_timer(s, q) ==
    IF MCB_IP4_ADDR_CMP(q.src, s.querier_addr) # 0
    THEN IF MCB_IP4_ADDR_CMP(s.querier_addr, IfAddr) = 0
         THEN IF \/ MCB_IP4_ADDR_CMP(q.src, IfAddr) < 0
                 \/ s.mode = QUERIER_MODE_DEFER
              THEN query_record_and_rearm(query_new_querier(s, q), q)
              ELSE s
         ELSE IF MCB_IP4_ADDR_CMP(q.src, s.querier_addr) < 0
              THEN query_record_and_rearm(query_new_querier(s, q), q)
              ELSE query_record_and_rearm(s, q)
    ELSE query_record_and_rearm(s, q)

\* handle_igmp_query recording the parameters of a query the querier does
\* not yield to
handle_igmp_query_records_higher(s, q) ==
    IF MCB_IP4_ADDR_CMP(q.src, s.querier_addr) # 0
    THEN IF MCB_IP4_ADDR_CMP(s.querier_addr, IfAddr) = 0
         THEN IF \/ MCB_IP4_ADDR_CMP(q.src, IfAddr) < 0
                 \/ s.mode = QUERIER_MODE_DEFER
              THEN query_record_and_rearm(
                       query_new_querier(DelTimer(s, "igmp_send_general_query", IfClosure), q), q)
              ELSE query_record_and_rearm(s, q)
         ELSE IF MCB_IP4_ADDR_CMP(q.src, s.querier_addr) < 0
              THEN query_record_and_rearm(query_new_querier(s, q), q)
              ELSE query_record_and_rearm(s, q)
    ELSE query_record_and_rearm(s, q)

handle_igmp_query(s, q) ==
    IF MCB_IP4_ADDR_CMP(q.src, s.querier_addr) # 0
    THEN IF MCB_IP4_ADDR_CMP(s.querier_addr, IfAddr) = 0
         THEN IF \/ MCB_IP4_ADDR_CMP(q.src, IfAddr) < 0
                 \/ s.mode = QUERIER_MODE_DEFER
              THEN query_record_and_rearm(
                       query_new_querier(DelTimer(s, "igmp_send_general_query", IfClosure), q), q)
              ELSE s
         ELSE IF MCB_IP4_ADDR_CMP(q.src, s.querier_addr) < 0
              THEN query_record_and_rearm(query_new_querier(s, q), q)
              ELSE query_record_and_rearm(s, q)
    ELSE query_record_and_rearm(s, q)

\* millis of the group membership and v1 host timers
membership_millis(s) ==
    (s.querier_robustness * s.querier_interval_sec
        + s.querier_response_interval_tenths \div 10) * 1000

\* igmp_join_common leaving the pending membership timer in place
igmp_join_common_keeps_timer(s, g) ==
    LET s1 == IF s.group_list[g].active # 0
              THEN s
              ELSE [s EXCEPT !.group_list[g].active = 1,
                             !.il = activate_all(@, s.group_list[g].bridge_interface_list, 1)]
    IN  AddTimer(s1, membership_millis(s1), "igmp_group_timeout", g)

\* igmp_join_common ignoring a report while a series of group specific
\* queries is under way
igmp_join_common_during_series(s, g) ==
    IF s.group_list[g].active # 0 /\ s.group_list[g].group_queries_remaining # 0
    THEN s
    ELSE LET s1 == IF s.group_list[g].active # 0
                   THEN DelTimer(s, "igmp_group_timeout", g)
                   ELSE [s EXCEPT !.group_list[g].active = 1,
                                  !.il = activate_all(@, s.group_list[g].bridge_interface_list, 1)]
         IN  AddTimer(s1, membership_millis(s1), "igmp_group_timeout", g)

igmp_join_common(s, g) ==
    LET s1 == IF s.group_list[g].active # 0
              THEN DelTimer(s, "igmp_group_timeout", g)
              ELSE [s EXCEPT !.group_list[g].active = 1,
                             !.il = activate_all(@, s.group_list[g].bridge_interface_list, 1)]
    IN  AddTimer(s1, membership_millis(s1), "igmp_group_timeout", g)

\* igmp_leave_common without the test for a v1 host
igmp_leave_common_with_v1_host(s, g) ==
    IF MCB_IP4_ADDR_CMP(s.querier_addr, IfAddr) # 0 THEN s
    ELSE IF s.group_list[g].active = 0 THEN s
    ELSE IF s.group_list[g].group_queries_remaining # 0 THEN s
    ELSE LET s1 == DelTimer(s, "igmp_group_timeout", g)
             s2 == AddTimer(s1, s1.querier_robustness * s1.querier_lastmbr_interval_tenths * 100
                                    + GRACE_MILLIS,
                            "igmp_group_timeout", g)
         IN  send_group_specific_query(
                 [s2 EXCEPT !.group_list[g].group_queries_remaining = s2.querier_robustness], g)

igmp_leave_common(s, g) ==
    IF MCB_IP4_ADDR_CMP(s.querier_addr, IfAddr) # 0 THEN s
    ELSE IF s.group_list[g].active = 0 THEN s
    ELSE IF s.group_list[g].v1_host_present # 0 THEN s
    ELSE IF s.group_list[g].group_queries_remaining # 0 THEN s
    ELSE LET s1 == DelTimer(s, "igmp_group_timeout", g)
             s2 == AddTimer(s1, s1.querier_robustness * s1.querier_lastmbr_interval_tenths * 100
                                    + GRACE_MILLIS,
                            "igmp_group_timeout", g)
         IN  send_group_specific_query(
                 [s2 EXCEPT !.group_list[g].group_queries_remaining = s2.querier_robustness], g)

handle_igmp_v1_report(s, group) ==
    LET found == igmp_interface_find_group(s, group)
        g == found.g
        s1 == found.s
    IN  IF g = 0 THEN s1
        ELSE LET s2 == IF s1.group_list[g].active # 0 /\ s1.group_list[g].v1_host_present # 0
                       THEN DelTimer(s1, "igmp_v1_host_timeout", g)
                       ELSE [s1 EXCEPT !.group_list[g].v1_host_present = 1]
                 s3 == AddTimer(s2, membership_millis(s2), "igmp_v1_host_timeout", g)
             IN  igmp_join_common(s3, g)

handle_igmp_v2_report(s, group) ==
    LET found == igmp_interface_find_group(s, group)
    IN  IF found.g = 0 THEN found.s
        ELSE igmp_join_common(found.s, found.g)

handle_igmp_v2_leave(s, group) ==
    LET found == igmp_interface_find_group(s, group)
    IN  IF found.g = 0 THEN found.s
        ELSE igmp_leave_common(found.s, found.g)

MCB_REC_MODE_IS_INCLUDE == 1
MCB_REC_MODE_IS_EXCLUDE == 2
MCB_REC_CHANGE_TO_INCLUDE == 3
MCB_REC_CHANGE_TO_EXCLUDE == 4
MCB_REC_ALLOW_NEW_SOURCES == 5
MCB_REC_BLOCK_OLD_SOURCES == 6

\* the record loop of handle_igmp_v3_report from record index on; a record is
\* [type, num_srcs, group, overrun]: overrun is TRUE when the packet ends
\* before the end of the record
RECURSIVE v3_records(_, _, _)
v3_records(s, records, index) ==
    IF index > Len(records) THEN s
    ELSE LET rec == records[index]
         IN  IF rec.overrun THEN s
             ELSE LET found == igmp_interface_find_group(s, rec.group)
                      g == found.g
                      s1 == found.s
                  IN  IF g = 0 THEN v3_records(s1, records, index + 1)
                      ELSE IF rec.type \in {MCB_REC_MODE_IS_INCLUDE, MCB_REC_CHANGE_TO_INCLUDE}
                           THEN IF rec.num_srcs # 0
                                THEN v3_records(igmp_join_common(s1, g), records, index + 1)
                                ELSE v3_records(igmp_leave_common(s1, g), records, index + 1)
                      ELSE IF rec.type \in {MCB_REC_MODE_IS_EXCLUDE, MCB_REC_CHANGE_TO_EXCLUDE,
                                            MCB_REC_ALLOW_NEW_SOURCES}
                           THEN v3_records(igmp_join_common(s1, g), records, index + 1)
                      ELSE IF rec.type = MCB_REC_BLOCK_OLD_SOURCES
                           THEN IF rec.num_srcs # 0 THEN s1
                                ELSE v3_records(igmp_leave_common(s1, g), records, index + 1)
                      ELSE s1

handle_igmp_v3_report(s, records) == v3_records(s, records, 1)

\* igmp_receive: dispatch of a packet that passed the length and checksum
\* checks; p.src is the IPv4 source, r the value rand() would return
igmp_receive(s, p, r) ==
    IF MCB_IP4_ADDR_CMP(p.src, IfAddr) = 0 THEN s
    ELSE IF p.type = "query" THEN handle_igmp_query(s, p)
    ELSE IF p.type = "v1_report" THEN handle_igmp_v1_report(s, p.group)
    ELSE IF p.type = "v2_report" THEN handle_igmp_v2_report(s, p.group)
    ELSE IF p.type = "v2_leave" THEN handle_igmp_v2_leave(s, p.group)
    ELSE IF p.type = "v3_report" THEN handle_igmp_v3_report(s, p.records)
    ELSE IF p.type = "mrd_solicitation" THEN handle_igmp_mrd_solicitation(s, r)
    ELSE s

-----------------------------------------------------------------------------
(* Inputs *)

\* the values rand() returns: the ends of both jitter ranges
RandValues == {0, 1999}
LateRand == {1999}

\* (qrv, qqic, code) of the IGMPv3 queries received
QueryParams == { <<2, 125, 100>>, <<1, 1, 10>>, <<0, 1, 20>>, <<3, 128, 10>> }

QuerySources == {LowAddr, HighAddr}
QueryGroups == {any_addr, FixedGroup, DynGroupA, LinkLocalGroup}
ReportGroups == {FixedGroup, DynGroupA, DynGroupB, LinkLocalGroup}

V3Queries ==
    { [type |-> "query", src |-> a, v3_flag |-> 1, qrv |-> t[1], qqic |-> t[2],
       code |-> t[3], s_flag |-> f, group |-> g] :
        a \in QuerySources, t \in QueryParams, f \in {0, 1}, g \in QueryGroups }

\* an IGMPv1/v2 query is shorter than mcb_igmp_v3_query_t: no qrv, qqic, s_flag
V2Queries ==
    { [type |-> "query", src |-> a, v3_flag |-> 0, qrv |-> 0, qqic |-> 0,
       code |-> 100, s_flag |-> 0, group |-> g] :
        a \in QuerySources, g \in QueryGroups }

\* a query the interface sent itself and captured again
OwnQueries ==
    { [type |-> "query", src |-> IfAddr, v3_flag |-> 0, qrv |-> 0, qqic |-> 0,
       code |-> 100, s_flag |-> 0, group |-> any_addr] }

Queries == V3Queries \cup V2Queries \cup OwnQueries

GroupPackets ==
    { [type |-> t, src |-> HighAddr, group |-> g] :
        t \in {"v1_report", "v2_report", "v2_leave"}, g \in ReportGroups }

\* group records: a join, a leave, BLOCK_OLD_SOURCES with sources, an unknown
\* type, and a record cut short by the end of the packet
GroupRecords ==
    { [type |-> MCB_REC_MODE_IS_EXCLUDE, num_srcs |-> 0, group |-> g, overrun |-> FALSE] :
        g \in {FixedGroup, DynGroupA} }
    \cup { [type |-> MCB_REC_CHANGE_TO_INCLUDE, num_srcs |-> 0, group |-> FixedGroup, overrun |-> FALSE],
           [type |-> MCB_REC_BLOCK_OLD_SOURCES, num_srcs |-> 1, group |-> FixedGroup, overrun |-> FALSE],
           [type |-> 7, num_srcs |-> 0, group |-> FixedGroup, overrun |-> FALSE],
           [type |-> MCB_REC_MODE_IS_EXCLUDE, num_srcs |-> 0, group |-> FixedGroup, overrun |-> TRUE] }

V3Reports ==
    { [type |-> "v3_report", src |-> HighAddr, records |-> <<a>>] : a \in GroupRecords }
    \cup { [type |-> "v3_report", src |-> HighAddr, records |-> <<a, b>>] :
            a \in GroupRecords, b \in GroupRecords }

MrdSolicitations == { [type |-> "mrd_solicitation", src |-> HighAddr] }

Packets == Queries \cup GroupPackets \cup V3Reports \cup MrdSolicitations

-----------------------------------------------------------------------------
(* The state record the handlers work on, and its write-back *)

State(clock) ==
    [mode |-> igmp_querier_mode,
     querier_addr |-> querier_addr,
     querier_robustness |-> querier_robustness,
     querier_interval_sec |-> querier_interval_sec,
     querier_response_interval_tenths |-> querier_response_interval_tenths,
     querier_lastmbr_interval_tenths |-> querier_lastmbr_interval_tenths,
     mrd_initial_advertisements_remaining |-> mrd_initial_advertisements_remaining,
     startup_queries_remaining |-> startup_queries_remaining,
     group_list |-> group_list,
     group_list_count |-> group_list_count,
     fixed_limit |-> group_list_fixed_limit,
     timer_list |-> timer_list,
     il |-> interface_list,
     sent |-> <<>>,
     timers_exceeded |-> FALSE,
     now |-> clock]

\* the loop goes on dispatching while the head timer has expired
Expired(tl, clock) == tl # <<>> /\ tl[1].deadline <= clock

Commit(s) ==
    /\ igmp_querier_mode' = s.mode
    /\ querier_addr' = s.querier_addr
    /\ querier_robustness' = s.querier_robustness
    /\ querier_interval_sec' = s.querier_interval_sec
    /\ querier_response_interval_tenths' = s.querier_response_interval_tenths
    /\ querier_lastmbr_interval_tenths' = s.querier_lastmbr_interval_tenths
    /\ mrd_initial_advertisements_remaining' = s.mrd_initial_advertisements_remaining
    /\ startup_queries_remaining' = s.startup_queries_remaining
    /\ group_list' = s.group_list
    /\ group_list_count' = s.group_list_count
    /\ group_list_fixed_limit' = s.fixed_limit
    /\ timer_list' = s.timer_list
    /\ interface_list' = s.il
    /\ sent' = s.sent
    /\ now' = s.now
    /\ draining' = Expired(s.timer_list, s.now)

\* the smaller address under memcmp
MinAddr(a, b) == IF MCB_IP4_ADDR_CMP(a, b) <= 0 THEN a ELSE b

-----------------------------------------------------------------------------
(* Start-up: igmp_register_interface, initialize_igmp, start_igmp *)

\* memset(igmp_group, 0, sizeof(*igmp_group))
ZeroGroup ==
    [mcast_addr |-> any_addr, active |-> 0, v1_host_present |-> 0,
     group_queries_remaining |-> 0, bridge_interface_list |-> <<>>]

\* igmp_register_interface for the handle h of the bridge, then initialize_igmp:
\* one fixed group, non_configured_groups zeroed slots behind it
initialize_igmp(h) ==
    <<[ZeroGroup EXCEPT !.mcast_addr = FixedGroup, !.bridge_interface_list = <<h>>]>>
        \o [i \in 1..NonConfiguredGroups |-> ZeroGroup]

\* start_igmp activating the querier at once under the delay mode too
start_igmp_delay_as_quick(mode, il, h, r1) ==
    LET s0 == [mode |-> mode,
               querier_addr |-> any_addr,
               querier_robustness |-> 0,
               querier_interval_sec |-> 0,
               querier_response_interval_tenths |-> 0,
               querier_lastmbr_interval_tenths |-> 0,
               mrd_initial_advertisements_remaining |-> MCB_MRD_INITIAL_COUNT - 1,
               startup_queries_remaining |-> 0,
               group_list |-> initialize_igmp(h),
               group_list_count |-> 1,
               fixed_limit |-> 1,
               timer_list |-> <<>>,
               il |-> il,
               sent |-> <<>>,
               timers_exceeded |-> FALSE,
               now |-> 0]
        s1 == igmp_send_mrd_advertisement(s0, r1)
    IN  IF mode \in {QUERIER_MODE_QUICK, QUERIER_MODE_DELAY}
        THEN igmp_activate_querier_mode(s1)
        ELSE LET s2 == [s1 EXCEPT !.querier_robustness = MCB_IGMP_ROBUSTNESS,
                                  !.querier_interval_sec = MCB_IGMP_QUERY_INTERVAL,
                                  !.querier_response_interval_tenths = MCB_IGMP_RESPONSE_INTERVAL,
                                  !.querier_lastmbr_interval_tenths = MCB_IGMP_LASTMBR_INTERVAL,
                                  !.querier_addr = AllOnes]
             IN  IF mode # QUERIER_MODE_NEVER
                 THEN AddTimer(s2, DELAY_ACTIVATION_MILLIS, "igmp_querier_timeout", IfClosure)
                 ELSE s2

\* start_igmp for the interface, before the thread runs; r1 is rand()
start_igmp(mode, il, h, r1) ==
    LET s0 == [mode |-> mode,
               querier_addr |-> any_addr,
               querier_robustness |-> 0,
               querier_interval_sec |-> 0,
               querier_response_interval_tenths |-> 0,
               querier_lastmbr_interval_tenths |-> 0,
               mrd_initial_advertisements_remaining |-> MCB_MRD_INITIAL_COUNT - 1,
               startup_queries_remaining |-> 0,
               group_list |-> initialize_igmp(h),
               group_list_count |-> 1,
               fixed_limit |-> 1,
               timer_list |-> <<>>,
               il |-> il,
               sent |-> <<>>,
               timers_exceeded |-> FALSE,
               now |-> 0]
        s1 == igmp_send_mrd_advertisement(s0, r1)
    IN  IF mode = QUERIER_MODE_QUICK
        THEN igmp_activate_querier_mode(s1)
        ELSE LET s2 == [s1 EXCEPT !.querier_robustness = MCB_IGMP_ROBUSTNESS,
                                  !.querier_interval_sec = MCB_IGMP_QUERY_INTERVAL,
                                  !.querier_response_interval_tenths = MCB_IGMP_RESPONSE_INTERVAL,
                                  !.querier_lastmbr_interval_tenths = MCB_IGMP_LASTMBR_INTERVAL,
                                  !.querier_addr = AllOnes]
             IN  IF mode # QUERIER_MODE_NEVER
                 THEN AddTimer(s2, DELAY_ACTIVATION_MILLIS, "igmp_querier_timeout", IfClosure)
                 ELSE s2

\* initialize_igmp and start_igmp return at once when no interface registered
igmp_not_started(il) ==
    [mode |-> QUERIER_MODE_QUICK,
     querier_addr |-> any_addr,
     querier_robustness |-> 0,
     querier_interval_sec |-> 0,
     querier_response_interval_tenths |-> 0,
     querier_lastmbr_interval_tenths |-> 0,
     mrd_initial_advertisements_remaining |-> 0,
     startup_queries_remaining |-> 0,
     group_list |-> <<>>,
     group_list_count |-> 0,
     fixed_limit |-> 0,
     timer_list |-> <<>>,
     il |-> il,
     sent |-> <<>>,
     timers_exceeded |-> FALSE,
     now |-> 0]

QuerierModes == {QUERIER_MODE_NEVER, QUERIER_MODE_QUICK, QUERIER_MODE_DELAY, QUERIER_MODE_DEFER}

\* the advertisements among the packets a callback injected, added to the
\* count n of those sent before; the count stops above MCB_MRD_INITIAL_COUNT
AdvertisementsAfter(n, s) ==
    LET m == n + Cardinality({i \in 1..Len(s.sent) : s.sent[i].type = "mrd_advertisement"})
    IN  IF m > MCB_MRD_INITIAL_COUNT THEN MCB_MRD_INITIAL_COUNT + 1 ELSE m

\* the observation record at start
InitObs(s) ==
    [event |-> [kind |-> "start", what |-> "start_igmp", closure |-> IfClosure,
               group |-> any_addr],
     q_base |-> s.querier_addr,
     q_seen |-> AllOnes,
     q_last |-> AllOnes,
     timers_exceeded |-> s.timers_exceeded,
     last_expired |-> 0,
     advertisements |-> AdvertisementsAfter(0, s),
     queries_since_activation |-> IF s.mode = QUERIER_MODE_QUICK THEN 1 ELSE 0]

\* the bridge of the control plane specification: two dynamic inbound
\* interfaces and one dynamic outbound interface, the IGMP interface
ControlDraft ==
    << [inbound_configuration |-> INTERFACE_CONFIG_DYNAMIC, outbound_configuration |-> INTERFACE_CONFIG_NONE],
       [inbound_configuration |-> INTERFACE_CONFIG_DYNAMIC, outbound_configuration |-> INTERFACE_CONFIG_NONE],
       [inbound_configuration |-> INTERFACE_CONFIG_NONE, outbound_configuration |-> INTERFACE_CONFIG_DYNAMIC] >>

ControlHandle == 3

\* the variables hold the state s
Holds(s) ==
    /\ igmp_querier_mode = s.mode
    /\ querier_addr = s.querier_addr
    /\ querier_robustness = s.querier_robustness
    /\ querier_interval_sec = s.querier_interval_sec
    /\ querier_response_interval_tenths = s.querier_response_interval_tenths
    /\ querier_lastmbr_interval_tenths = s.querier_lastmbr_interval_tenths
    /\ mrd_initial_advertisements_remaining = s.mrd_initial_advertisements_remaining
    /\ startup_queries_remaining = s.startup_queries_remaining
    /\ group_list = s.group_list
    /\ group_list_count = s.group_list_count
    /\ group_list_fixed_limit = s.fixed_limit
    /\ timer_list = s.timer_list
    /\ interface_list = s.il
    /\ sent = s.sent
    /\ now = s.now
    /\ draining = FALSE

\* the program after initialize_interfaces, initialize_igmp and start_igmp
InitWith(modes, bridges, rands) ==
    \E mode \in modes, il \in bridges, r1 \in rands :
        /\ Holds(start_igmp(mode, il, ControlHandle, r1))
        /\ obs = InitObs(start_igmp(mode, il, ControlHandle, r1))

-----------------------------------------------------------------------------
(* evm_loop: one callback per step *)

\* the times at which the next packet can be read: at once, or when the
\* wait for the head timer ends (ready sockets are dispatched before timers)
ArrivalTimes(limit) ==
    {now} \cup (IF timer_list # <<>> /\ timer_list[1].deadline > now
                      /\ timer_list[1].deadline <= limit
                THEN {timer_list[1].deadline} ELSE {})

\* what the last step did (event), the querier address at start or at the
\* last querier timeout (q_base), the lowest (q_seen) and the latest (q_last)
\* source of the queries processed since, whether the step met a full timer
\* table, the group whose membership timer fired last (last_expired), the
\* advertisements sent since the start, and the general queries sent since
\* the last activation
ObsAfterPacket(p, s) ==
    [obs EXCEPT !.event = IF "records" \in DOMAIN p
                          THEN [kind |-> "receive", what |-> p.type, closure |-> IfClosure,
                                group |-> any_addr, records |-> p.records]
                          ELSE IF p.type = "query"
                          THEN [kind |-> "receive", what |-> p.type, closure |-> IfClosure,
                                group |-> p.group, query |-> p]
                          ELSE [kind |-> "receive", what |-> p.type, closure |-> IfClosure,
                                group |-> IF "group" \in DOMAIN p THEN p.group ELSE any_addr],
                !.q_seen = IF p.type = "query" /\ p.src # IfAddr
                           THEN MinAddr(@, p.src) ELSE @,
                !.q_last = IF p.type = "query" /\ p.src # IfAddr THEN p.src ELSE @,
                !.advertisements = AdvertisementsAfter(@, s),
                !.timers_exceeded = s.timers_exceeded]

ObsAfterTimer(timer, s) ==
    [obs EXCEPT !.event = [kind |-> "timer", what |-> timer.callback, closure |-> timer.closure,
                           group |-> any_addr],
                !.q_base = IF timer.callback = "igmp_querier_timeout" THEN s.querier_addr ELSE @,
                !.q_seen = IF timer.callback = "igmp_querier_timeout" THEN AllOnes ELSE @,
                !.q_last = IF timer.callback = "igmp_querier_timeout" THEN AllOnes ELSE @,
                !.timers_exceeded = s.timers_exceeded,
                !.last_expired = IF timer.callback = "igmp_group_timeout" THEN timer.closure ELSE @,
                !.advertisements = AdvertisementsAfter(@, s),
                !.queries_since_activation =
                    IF timer.callback = "igmp_querier_timeout"
                    THEN IF s.mode # QUERIER_MODE_NEVER THEN 1 ELSE 0
                    ELSE IF timer.callback = "igmp_send_general_query"
                         THEN IF @ > MCB_IGMP_ROBUSTNESS THEN @ ELSE @ + 1
                         ELSE @]

\* igmp_receive is called for a packet read from the pcap handle, at time t
ReceiveStep(p, r, limit) ==
    /\ \E t \in ArrivalTimes(limit) :
          LET s == igmp_receive(State(t), p, r)
          IN  /\ Commit(s)
              /\ obs' = ObsAfterPacket(p, s)

\* the callback of a timer
timer_callback(s, timer, r) ==
    IF timer.callback = "igmp_send_mrd_advertisement" THEN igmp_send_mrd_advertisement(s, r)
    ELSE IF timer.callback = "igmp_send_general_query" THEN igmp_send_general_query(s)
    ELSE IF timer.callback = "send_group_specific_query" THEN send_group_specific_query(s, timer.closure)
    ELSE IF timer.callback = "igmp_querier_timeout" THEN igmp_querier_timeout(s)
    ELSE IF timer.callback = "igmp_group_timeout" THEN igmp_group_timeout(s, timer.closure)
    ELSE igmp_v1_host_timeout(s, timer.closure)

\* the head timer expires: it is removed and its callback invoked
TimerStep(callback, r, limit) ==
    /\ timer_list[1].callback = callback
    /\ timer_list[1].deadline <= limit
    /\ LET timer == timer_list[1]
           clock == IF timer.deadline > now THEN timer.deadline ELSE now
           s == timer_callback([State(clock) EXCEPT !.timer_list = Tail(@)], timer, r)
       IN  /\ Commit(s)
           /\ obs' = ObsAfterTimer(timer, s)

\* The actions of the loop.  A packet is read only when no expired timer is
\* left to dispatch in the current iteration.
ReceiveQuery(queries, limit) ==
    \E p \in queries : ~draining /\ ReceiveStep(p, 0, limit)
ReceiveV1Report(groups, limit) ==
    \E g \in groups :
        ~draining /\ ReceiveStep([type |-> "v1_report", src |-> HighAddr, group |-> g], 0, limit)
ReceiveV2Report(groups, limit) ==
    \E g \in groups :
        ~draining /\ ReceiveStep([type |-> "v2_report", src |-> HighAddr, group |-> g], 0, limit)
ReceiveV2Leave(groups, limit) ==
    \E g \in groups :
        ~draining /\ ReceiveStep([type |-> "v2_leave", src |-> HighAddr, group |-> g], 0, limit)
ReceiveV3Report(reports, limit) ==
    \E p \in reports : ~draining /\ ReceiveStep(p, 0, limit)
ReceiveMrdSolicitation(rands, limit) ==
    \E p \in MrdSolicitations, r \in rands : ~draining /\ ReceiveStep(p, r, limit)

FireMrdAdvertisement(rands, limit) ==
    \E r \in rands : timer_list # <<>> /\ TimerStep("igmp_send_mrd_advertisement", r, limit)
FireGeneralQuery(limit) ==
    timer_list # <<>> /\ TimerStep("igmp_send_general_query", 0, limit)
FireGroupQuery(limit) ==
    timer_list # <<>> /\ TimerStep("send_group_specific_query", 0, limit)
FireQuerierTimeout(limit) ==
    timer_list # <<>> /\ TimerStep("igmp_querier_timeout", 0, limit)
FireGroupTimeout(limit) ==
    timer_list # <<>> /\ TimerStep("igmp_group_timeout", 0, limit)
FireV1HostTimeout(limit) ==
    timer_list # <<>> /\ TimerStep("igmp_v1_host_timeout", 0, limit)

ControlBridge == initialize_interfaces(add_bridge(ControlDraft))

-----------------------------------------------------------------------------
(* Spec: one IGMP interface in any querier mode, a remote querier with a    *)
(* lower address, hosts of the configured group                             *)

GeneralQueries == {q \in Queries : q.group = any_addr}

\* the general and group specific queries of a robustness 1 querier and of
\* an IGMPv2 querier
ShortQueries ==
    {q \in Queries : /\ q.group \in {any_addr, FixedGroup}
                     /\ q.v3_flag = 1 => <<q.qrv, q.qqic, q.code>> = <<1, 1, 10>>}

MainQueries ==
    {q \in Queries : /\ q.src \in {LowAddr, IfAddr}
                     /\ q.group \in {any_addr, FixedGroup}
                     /\ q.v3_flag = 1 => <<q.qrv, q.qqic, q.code>> = <<1, 1, 10>>}

Init == InitWith(QuerierModes, {ControlBridge}, LateRand)

Next ==
    \/ ReceiveQuery(MainQueries, MaxTime)
    \/ ReceiveV1Report({FixedGroup}, MaxTime)
    \/ ReceiveV2Report({FixedGroup}, MaxTime)
    \/ ReceiveV2Leave({FixedGroup}, MaxTime)
    \/ FireMrdAdvertisement(LateRand, MaxTime)
    \/ FireGroupQuery(MaxTime)
    \/ FireQuerierTimeout(MaxTime)
    \/ FireGroupTimeout(MaxTime)
    \/ FireV1HostTimeout(MaxTime)

Spec == Init /\ [][Next]_vars

-----------------------------------------------------------------------------
(* SpecElection: the querier election, general queries from every source *)

InitElection ==
    InitWith({QUERIER_MODE_QUICK, QUERIER_MODE_DELAY, QUERIER_MODE_DEFER}, {ControlBridge}, RandValues)

NextElection ==
    \/ ReceiveQuery(GeneralQueries, MaxTime)
    \/ FireMrdAdvertisement(RandValues, MaxTime)
    \/ FireQuerierTimeout(MaxTime)

SpecElection == InitElection /\ [][NextElection]_vars

-----------------------------------------------------------------------------
(* SpecNever: querier mode never *)

InitNever == InitWith({QUERIER_MODE_NEVER}, {ControlBridge}, LateRand)

NextNever ==
    \/ ReceiveQuery(ShortQueries, MaxTime)
    \/ ReceiveV1Report({FixedGroup}, MaxTime)
    \/ ReceiveV2Report({FixedGroup}, MaxTime)
    \/ ReceiveV2Leave({FixedGroup}, MaxTime)
    \/ FireMrdAdvertisement(LateRand, MaxTime)
    \/ FireQuerierTimeout(MaxTime)
    \/ FireGroupTimeout(MaxTime)
    \/ FireV1HostTimeout(MaxTime)

SpecNever == InitNever /\ [][NextNever]_vars

-----------------------------------------------------------------------------
(* SpecTimers: the timer table with hosts of a configured and of a          *)
(* non configured group                                                     *)

InitTimers == InitWith({QUERIER_MODE_QUICK}, {ControlBridge}, LateRand)

NextTimers ==
    \/ ReceiveV1Report({FixedGroup, DynGroupA}, MaxTime)
    \/ ReceiveV2Report({FixedGroup, DynGroupA}, MaxTime)
    \/ ReceiveV2Leave({FixedGroup, DynGroupA}, MaxTime)
    \/ FireMrdAdvertisement(LateRand, MaxTime)
    \/ FireGroupQuery(MaxTime)
    \/ FireGroupTimeout(MaxTime)

SpecTimers == InitTimers /\ [][NextTimers]_vars

-----------------------------------------------------------------------------
(* SpecStartup: a quick querier over the start-up queries and one full      *)
(* query interval, with remote queriers that come and go                    *)

\* the start-up window, one query interval and MaxTime more
LongTime == MCB_IGMP_QUERY_INTERVAL * 1250 + MaxTime

StartupQueries ==
    {q \in GeneralQueries : q.v3_flag = 1 /\ q.s_flag = 0
                            /\ <<q.qrv, q.qqic, q.code>> = <<1, 1, 10>>}

InitStartup == InitWith({QUERIER_MODE_QUICK}, {ControlBridge}, LateRand)

NextStartup ==
    \/ ReceiveQuery(StartupQueries, LongTime)
    \/ FireMrdAdvertisement(LateRand, LongTime)
    \/ FireGeneralQuery(LongTime)
    \/ FireQuerierTimeout(LongTime)

SpecStartup == InitStartup /\ [][NextStartup]_vars

-----------------------------------------------------------------------------
(* SpecBurst: the group specific query series of a leave, with remote       *)
(* queriers announcing every robustness of QueryParams                      *)

BurstQueries ==
    {q \in GeneralQueries : q.src = LowAddr /\ q.v3_flag = 1 /\ q.s_flag = 0}

InitBurst == InitWith({QUERIER_MODE_QUICK}, {ControlBridge}, LateRand)

NextBurst ==
    \/ ReceiveQuery(BurstQueries, MaxTime)
    \/ ReceiveV2Report({FixedGroup}, MaxTime)
    \/ ReceiveV2Leave({FixedGroup}, MaxTime)
    \/ FireMrdAdvertisement(LateRand, MaxTime)
    \/ FireGroupQuery(MaxTime)
    \/ FireQuerierTimeout(MaxTime)
    \/ FireGroupTimeout(MaxTime)

SpecBurst == InitBurst /\ [][NextBurst]_vars

-----------------------------------------------------------------------------

(* SpecDelay: the delay and the defer mode from the start over the 125.5 s  *)
(* activation delay and one query interval                                  *)

InitDelay == InitWith({QUERIER_MODE_DELAY, QUERIER_MODE_DEFER}, {ControlBridge}, LateRand)

NextDelay ==
    \/ ReceiveQuery(StartupQueries, LongTime)
    \/ FireMrdAdvertisement(LateRand, LongTime)
    \/ FireGeneralQuery(LongTime)
    \/ FireQuerierTimeout(LongTime)

SpecDelay == InitDelay /\ [][NextDelay]_vars

-----------------------------------------------------------------------------

(* SpecGroups: the group table with hosts of two non configured groups and *)
(* of a link-local group, and a remote querier asking for a non configured  *)
(* and for a link-local group                                               *)

TableGroups == {DynGroupA, DynGroupB, LinkLocalGroup}

GroupQueries ==
    {q \in Queries : /\ q.src = LowAddr
                     /\ q.group \in {DynGroupA, LinkLocalGroup}
                     /\ q.v3_flag = 1
                     /\ q.s_flag = 0
                     /\ <<q.qrv, q.qqic, q.code>> = <<1, 1, 10>>}

InitGroups == InitWith({QUERIER_MODE_QUICK}, {ControlBridge}, LateRand)

NextGroups ==
    \/ ReceiveQuery(GroupQueries, MaxTime)
    \/ ReceiveV2Report(TableGroups, MaxTime)
    \/ ReceiveV2Leave(TableGroups, MaxTime)
    \/ FireMrdAdvertisement(LateRand, MaxTime)
    \/ FireGroupQuery(MaxTime)
    \/ FireQuerierTimeout(MaxTime)
    \/ FireGroupTimeout(MaxTime)

SpecGroups == InitGroups /\ [][NextGroups]_vars

-----------------------------------------------------------------------------

(* SpecMrd: router advertisements and solicitations, with every value of    *)
(* RandValues, while v1 hosts of two groups fill the timer table            *)

InitMrd == InitWith({QUERIER_MODE_QUICK}, {ControlBridge}, RandValues)

NextMrd ==
    \/ ReceiveMrdSolicitation(RandValues, MaxTime)
    \/ ReceiveV1Report({FixedGroup, DynGroupA}, MaxTime)
    \/ FireMrdAdvertisement(RandValues, MaxTime)

SpecMrd == InitMrd /\ [][NextMrd]_vars

-----------------------------------------------------------------------------

(* SpecTimecode: the time code decoders of util.c applied to every code of  *)
(* their argument type                                                      *)

InitTimecode ==
    /\ Holds(igmp_not_started(<<>>))
    /\ obs = InitObs(igmp_not_started(<<>>))

\* one call of timecode_8bit_decode(code), code a uint8_t
Decode8 ==
    /\ obs.event.kind = "start"
    /\ \E code \in 0..255 :
        /\ obs' = [obs EXCEPT !.event = [kind |-> "decode", what |-> "timecode_8bit_decode",
                                        closure |-> code, group |-> any_addr,
                                        value |-> timecode_8bit_decode(code)]]
        /\ UNCHANGED <<igmp_vars, timer_list, now, draining, interface_list, sent>>

\* one call of timecode_16bit_decode(code), code a uint16_t
Decode16 ==
    /\ obs.event.kind = "start"
    /\ \E code \in 0..65535 :
        /\ obs' = [obs EXCEPT !.event = [kind |-> "decode", what |-> "timecode_16bit_decode",
                                        closure |-> code, group |-> any_addr,
                                        value |-> timecode_16bit_decode(code)]]
        /\ UNCHANGED <<igmp_vars, timer_list, now, draining, interface_list, sent>>

NextTimecode ==
    \/ Decode8
    \/ Decode16

SpecTimecode == InitTimecode /\ [][NextTimecode]_vars

-----------------------------------------------------------------------------

(* SpecReports: the elected querier receiving IGMPv3 reports of one or two  *)
(* group records, and the group specific queries their leaves start         *)

InitReports == InitWith({QUERIER_MODE_QUICK}, {ControlBridge}, LateRand)

NextReports ==
    \/ ReceiveV3Report(V3Reports, MaxTime)
    \/ FireGroupQuery(MaxTime)

SpecReports == InitReports /\ [][NextReports]_vars

-----------------------------------------------------------------------------

(* SpecQueries: an interface that starts as the querier, hosts of the       *)
(* configured group, and general and group specific queries of a lower and  *)
(* of a higher address for that group and for a group nobody joined         *)

HostQueries ==
    {q \in V3Queries \cup V2Queries :
        /\ q.group \in {any_addr, FixedGroup, DynGroupA}
        /\ q.v3_flag = 1 => <<q.qrv, q.qqic, q.code>> = <<1, 1, 10>>}

InitQueries == InitWith({QUERIER_MODE_QUICK}, {ControlBridge}, LateRand)

NextQueries ==
    \/ ReceiveQuery(HostQueries, MaxTime)
    \/ ReceiveV2Report({FixedGroup}, MaxTime)
    \/ FireMrdAdvertisement(LateRand, MaxTime)
    \/ FireQuerierTimeout(MaxTime)
    \/ FireGroupTimeout(MaxTime)

SpecQueries == InitQueries /\ [][NextQueries]_vars

-----------------------------------------------------------------------------

(* SpecOverflow: SpecTimers' hosts filling the timer table, and a remote     *)
(* querier asking for the non configured group                              *)

OverflowQueries ==
    {q \in V3Queries : /\ q.src = LowAddr
                       /\ q.group = DynGroupA
                       /\ q.s_flag = 0
                       /\ <<q.qrv, q.qqic, q.code>> = <<1, 1, 10>>}

InitOverflow == InitWith({QUERIER_MODE_QUICK}, {ControlBridge}, LateRand)

NextOverflow ==
    \/ ReceiveQuery(OverflowQueries, MaxTime)
    \/ ReceiveV1Report({FixedGroup, DynGroupA}, MaxTime)
    \/ ReceiveV2Report({FixedGroup, DynGroupA}, MaxTime)
    \/ ReceiveV2Leave({FixedGroup, DynGroupA}, MaxTime)
    \/ FireGroupQuery(MaxTime)

SpecOverflow == InitOverflow /\ [][NextOverflow]_vars

-----------------------------------------------------------------------------

(* SpecTable: the quick mode with one slot more for non configured groups   *)
(* (a timer table of two entries more), and hosts of the configured and of  *)
(* two non configured groups                                                *)

InitTable ==
    \E r1 \in LateRand :
        LET s0 == start_igmp(QUERIER_MODE_QUICK, ControlBridge, ControlHandle, r1)
            s == [s0 EXCEPT !.group_list = @ \o <<ZeroGroup>>]
        IN  Holds(s) /\ obs = InitObs(s)

NextTable ==
    \/ ReceiveV1Report({DynGroupA, DynGroupB}, 0)
    \/ ReceiveV2Report({FixedGroup, DynGroupA, DynGroupB}, 0)
    \/ ReceiveV2Leave({FixedGroup, DynGroupA, DynGroupB}, 0)
    \/ FireGroupQuery(MaxTime)

SpecTable == InitTable /\ [][NextTable]_vars

-----------------------------------------------------------------------------

(* SpecEvm: the timer interface of evm.c called directly, with a table of    *)
(* timer_list_allocated(1) entries                                          *)

EvmCallbacks == {"igmp_group_timeout", "igmp_v1_host_timeout"}
EvmClosures == {1, 2}
EvmMillis == {MCB_IGMP_LASTMBR_INTERVAL * 100, MCB_IGMP_RESPONSE_INTERVAL * 100}

InitEvm ==
    /\ Holds(igmp_not_started(<<>>))
    /\ obs = InitObs(igmp_not_started(<<>>))

\* one call of evm_add_timer(evm, millis, callback, closure)
EvmAddTimer ==
    /\ obs.event.kind \in {"start", "evm"}
    /\ \E millis \in EvmMillis, callback \in EvmCallbacks, closure \in EvmClosures :
        /\ timer_list' = evm_add_timer(timer_list, timer_list_allocated(1), now, millis,
                                       callback, closure)
        /\ obs' = [obs EXCEPT !.event = [kind |-> "evm", what |-> "evm_add_timer",
                                        closure |-> closure, group |-> any_addr,
                                        callback |-> callback]]
        /\ UNCHANGED <<igmp_querier_mode, querier_addr, querier_robustness,
                       querier_interval_sec, querier_response_interval_tenths,
                       querier_lastmbr_interval_tenths, mrd_initial_advertisements_remaining,
                       startup_queries_remaining, group_list, group_list_count,
                       group_list_fixed_limit, now, draining, interface_list, sent>>

\* one call of evm_del_timer(evm, callback, closure)
EvmDelTimer ==
    /\ obs.event.kind = "evm"
    /\ \E callback \in EvmCallbacks, closure \in EvmClosures :
        /\ timer_list' = evm_del_timer(timer_list, callback, closure)
        /\ obs' = [obs EXCEPT !.event = [kind |-> "evm", what |-> "evm_del_timer",
                                        closure |-> closure, group |-> any_addr,
                                        callback |-> callback]]
        /\ UNCHANGED <<igmp_querier_mode, querier_addr, querier_robustness,
                       querier_interval_sec, querier_response_interval_tenths,
                       querier_lastmbr_interval_tenths, mrd_initial_advertisements_remaining,
                       startup_queries_remaining, group_list, group_list_count,
                       group_list_fixed_limit, now, draining, interface_list, sent>>

NextEvm ==
    \/ EvmAddTimer
    \/ EvmDelTimer

SpecEvm == InitEvm /\ [][NextEvm]_vars

-----------------------------------------------------------------------------

(* SpecReuse: a v1 host of one non configured group, v2 hosts of another,   *)
(* and a remote querier with short intervals asking for the first group     *)

ReuseQueries ==
    {q \in V3Queries : /\ q.src = LowAddr
                       /\ q.group = DynGroupA
                       /\ q.s_flag = 0
                       /\ <<q.qrv, q.qqic, q.code>> = <<1, 1, 10>>}

InitReuse == InitWith({QUERIER_MODE_QUICK}, {ControlBridge}, LateRand)

NextReuse ==
    \/ ReceiveQuery(ReuseQueries, MaxTime)
    \/ ReceiveV1Report({DynGroupA}, MaxTime)
    \/ ReceiveV2Report({DynGroupB}, MaxTime)
    \/ FireMrdAdvertisement(LateRand, MaxTime)
    \/ FireQuerierTimeout(MaxTime)
    \/ FireGroupTimeout(MaxTime)

SpecReuse == InitReuse /\ [][NextReuse]_vars

-----------------------------------------------------------------------------

(* SpecBridge: the data plane of every bridge the configuration accepts;    *)
(* the control plane activates and deactivates the registered interfaces    *)

InitBridge ==
    \E n \in 2..NumIf : \E il \in InitialBridges(n) :
        /\ Holds(igmp_not_started(il))
        /\ obs = InitObs(igmp_not_started(il))

\* bridge_receive for a datagram read from the socket of interface x
BridgeReceive ==
    \E x \in 1..Len(interface_list) :
        /\ sent' = [i \in 1..Cardinality(bridge_forward_set(interface_list, x)) |->
                      [type |-> "datagram", from |-> x,
                       to |-> CHOOSE p \in bridge_forward_set(interface_list, x) :
                                Cardinality({o \in bridge_forward_set(interface_list, x) : o < p}) = i - 1]]
        /\ obs' = [obs EXCEPT !.event = [kind |-> "receive", what |-> "datagram", closure |-> x,
                                        group |-> any_addr]]
        /\ UNCHANGED <<igmp_vars, timer_list, now, draining, interface_list>>

\* interface_activate_outbound called for a registered interface, as
\* igmp_join_common does; the event notes whether the interface was active
ListenerJoins ==
    \E h \in Registered(interface_list) :
        /\ interface_list' = interface_activate_outbound(interface_list, h)
        /\ sent' = <<>>
        /\ obs' = [obs EXCEPT !.event = [kind |-> "join", what |-> "igmp_join_common", closure |-> h,
                                        group |-> any_addr,
                                        repeated |-> interface_list[h].outbound_active # 0]]
        /\ UNCHANGED <<igmp_vars, timer_list, now, draining>>

\* igmp_group_timeout for the group of a registered interface
ListenerExpires ==
    \E h \in Registered(interface_list) :
        /\ interface_list' = interface_deactivate_outbound(interface_list, h)
        /\ sent' = <<>>
        /\ obs' = [obs EXCEPT !.event = [kind |-> "timer", what |-> "igmp_group_timeout", closure |-> h,
                                        group |-> any_addr]]
        /\ UNCHANGED <<igmp_vars, timer_list, now, draining>>

NextBridge ==
    \/ BridgeReceive
    \/ ListenerJoins
    \/ ListenerExpires

SpecBridge == InitBridge /\ [][NextBridge]_vars

-----------------------------------------------------------------------------
(* The claims *)

GeneralQueryTimers == TimersOf(timer_list, "igmp_send_general_query", IfClosure)

SentTypes == {sent[i].type : i \in 1..Len(sent)}

\* C1 (as amended): under the quick or the delay mode, the querier recorded
\* after a sequence of queries with no querier timeout in between is the
\* lowest of the addresses A_1..A_n and of the querier recorded before the
\* sequence: the local address when the interface was the querier, the
\* sentinel (which every address is below) when it was passive.
C1_LowestSinceTimeout ==
    igmp_querier_mode \in {QUERIER_MODE_QUICK, QUERIER_MODE_DELAY}
        => querier_addr = MinAddr(obs.q_seen, obs.q_base)

\* a sequence of two or more queries whose lowest source is not the last one
C1_Witness ==
    /\ igmp_querier_mode \in {QUERIER_MODE_QUICK, QUERIER_MODE_DELAY}
    /\ obs.q_seen = LowAddr
    /\ obs.q_last = HighAddr
    /\ querier_addr = LowAddr

\* C1 as stated: after such a sequence the recorded querier is
\* min(A_1, ..., A_n, local address).
C1_LowestWithLocal ==
    (igmp_querier_mode \in {QUERIER_MODE_QUICK, QUERIER_MODE_DELAY} /\ obs.q_seen # AllOnes)
        => querier_addr = MinAddr(obs.q_seen, IfAddr)

\* C2 (as amended): under the defer mode, the querier recorded after a
\* sequence of queries A_1..A_n (n >= 1) with no querier timeout in between
\* is the lowest of A_1..A_n, whether or not it is below the local address;
\* with no query since the timeout it is the querier recorded by the timeout.
C2_DeferLowestRemote ==
    igmp_querier_mode = QUERIER_MODE_DEFER
        => querier_addr = (IF obs.q_seen # AllOnes THEN obs.q_seen ELSE obs.q_base)

\* the interface was the querier and deferred to a higher address
C2_Witness ==
    /\ igmp_querier_mode = QUERIER_MODE_DEFER
    /\ obs.q_base = IfAddr
    /\ obs.q_seen = HighAddr
    /\ querier_addr = HighAddr

\* C2 as stated: under the defer mode the recorded querier is the most
\* recently observed remote address A_n.
C2_DeferMostRecent ==
    (igmp_querier_mode = QUERIER_MODE_DEFER /\ obs.q_last # AllOnes)
        => querier_addr = obs.q_last

\* C3: under the never mode no general query is emitted and none is
\* scheduled, the recorded querier is never the local address, and the
\* querier timeout leaves the sentinel as the querier.
C3_NeverStaysPassive ==
    igmp_querier_mode = QUERIER_MODE_NEVER
        => /\ "general_query" \notin SentTypes
           /\ GeneralQueryTimers = {}
           /\ querier_addr # IfAddr
           /\ obs.event.what = "igmp_querier_timeout" => querier_addr = AllOnes

\* the timeout of a remote querier has fired
C3_Witness ==
    /\ igmp_querier_mode = QUERIER_MODE_NEVER
    /\ obs.event.what = "igmp_querier_timeout"
    /\ obs.q_base = AllOnes
    /\ querier_addr = AllOnes

\* C4 as stated: a datagram read from interface X is forwarded to interface
\* Y only when X is configured inbound and Y is configured outbound.
C4_ForwardDirection ==
    \A i \in 1..Len(sent) :
        sent[i].type = "datagram"
            => /\ interface_list[sent[i].from].inbound_configuration # INTERFACE_CONFIG_NONE
               /\ interface_list[sent[i].to].outbound_configuration # INTERFACE_CONFIG_NONE

\* C5: after start and after every callback, each bridge interface
\* registered for a group is outbound active exactly when the group is active.
C5_OutboundFollowsMembership ==
    \A g \in 1..Len(group_list) :
        \A k \in 1..Len(group_list[g].bridge_interface_list) :
            interface_list[group_list[g].bridge_interface_list[k]].outbound_active = 1
                <=> group_list[g].active # 0

\* the membership of the configured group has expired
C5_Witness ==
    /\ obs.event.what = "igmp_group_timeout"
    /\ obs.event.closure = 1
    /\ group_list[1].active = 0
    /\ interface_list[ControlHandle].outbound_active = 0

\* C6 as stated: after initialization, before any listener has appeared, the
\* dynamic inbound interfaces are not inbound active.
C6_DynamicInboundIdleAtStart ==
    (obs.event.kind = "start" /\ \A g \in 1..Len(group_list) : group_list[g].active = 0)
        => \A i \in 1..Len(interface_list) :
              interface_list[i].inbound_configuration = INTERFACE_CONFIG_DYNAMIC
                  => interface_list[i].inbound_active = 0

\* C7 as stated, the S flag: the group specific query sent on the leave has
\* the S flag clear, every later one of the series (sent by the timer) has it set.
C7_BurstFlags ==
    \A i \in 1..Len(sent) :
        sent[i].type = "group_query"
            => sent[i].s_flag = (IF obs.event.kind = "timer" THEN 1 ELSE 0)

\* C8: a quick querier sends a general query as it activates and keeps one
\* general query timer; the timer is set to a quarter of the query interval
\* until MCB_IGMP_ROBUSTNESS queries are out, to the full interval after that.
C8_StartupBurst ==
    igmp_querier_mode = QUERIER_MODE_QUICK
        => /\ obs.event.what \in {"start_igmp", "igmp_querier_timeout"}
                  => "general_query" \in SentTypes
           /\ querier_addr = IfAddr => Cardinality(GeneralQueryTimers) = 1
           /\ \A i \in GeneralQueryTimers :
                  timer_list[i].millis =
                      IF obs.queries_since_activation < MCB_IGMP_ROBUSTNESS
                      THEN (MCB_IGMP_QUERY_INTERVAL * 1000) \div 4
                      ELSE MCB_IGMP_QUERY_INTERVAL * 1000

\* the third general query since the activation has been sent
C8_Witness ==
    /\ igmp_querier_mode = QUERIER_MODE_QUICK
    /\ obs.event.what = "igmp_send_general_query"
    /\ obs.queries_since_activation = MCB_IGMP_ROBUSTNESS + 1
    /\ querier_addr = IfAddr

\* C9 as stated: evm_add_timer never finds the timer table full.
C9_NoTimerDropped == ~obs.timers_exceeded

\* C10 as stated: no two outstanding timers have the same callback and closure.
C10_TimerIdentity ==
    \A i, j \in 1..Len(timer_list) :
        (timer_list[i].callback = timer_list[j].callback
            /\ timer_list[i].closure = timer_list[j].closure) => i = j

\* C11 as stated: after every completed callback each group record has at
\* most one membership (igmp_group_timeout) timer outstanding: exactly one
\* when the group is active and none when it is inactive.
C11_MembershipTimerCount ==
    \A g \in 1..Len(group_list) :
        Cardinality(TimersOf(timer_list, "igmp_group_timeout", g)) =
            IF group_list[g].active # 0 THEN 1 ELSE 0

\* C12: after every completed callback the current querier address equals
\* the interface's own address if and only if its general query timer is
\* scheduled.
C12_QuerierTimerCoupling ==
    (MCB_IP4_ADDR_CMP(querier_addr, IfAddr) = 0) <=> (GeneralQueryTimers # {})

\* a quick mode interface, which yielded its role earlier, is the querier
\* again after the querier timeout and has its general query timer back
C12_Witness ==
    /\ igmp_querier_mode = QUERIER_MODE_QUICK
    /\ obs.event.what = "igmp_querier_timeout"
    /\ MCB_IP4_ADDR_CMP(querier_addr, IfAddr) = 0
    /\ Cardinality(GeneralQueryTimers) = 1

\* C13 as stated: for every group at all times
\* 0 <= group_queries_remaining <= the interface's current querier robustness.
C13_BurstCounterRange ==
    \A g \in 1..Len(group_list) :
        /\ 0 <= group_list[g].group_queries_remaining
        /\ group_list[g].group_queries_remaining <= querier_robustness

QuerierTimeoutTimers == TimersOf(timer_list, "igmp_querier_timeout", IfClosure)

\* C14: under the delay and the defer mode the interface starts passive with
\* the sentinel querier address and a 125.5 s querier timeout armed; it sends
\* no general query and has no general query timer before a querier timeout
\* has fired; as long as no query of another host has been processed the
\* timer armed at the start is the one pending, and the querier timeout that
\* fires makes the interface the querier at that moment.
C14_DelayStartup ==
    igmp_querier_mode \in {QUERIER_MODE_DELAY, QUERIER_MODE_DEFER}
        => /\ obs.event.kind = "start"
                  => /\ querier_addr = AllOnes
                     /\ now = 0
           /\ obs.queries_since_activation = 0
                  => /\ "general_query" \notin SentTypes
                     /\ GeneralQueryTimers = {}
                     /\ MCB_IP4_ADDR_CMP(querier_addr, IfAddr) # 0
           /\ (obs.queries_since_activation = 0 /\ obs.q_last = AllOnes)
                  => /\ querier_addr = AllOnes
                     /\ Cardinality(QuerierTimeoutTimers) = 1
                     /\ \A i \in QuerierTimeoutTimers :
                            /\ timer_list[i].millis = DELAY_ACTIVATION_MILLIS
                            /\ timer_list[i].deadline = DELAY_ACTIVATION_MILLIS
           /\ obs.event.what = "igmp_querier_timeout"
                  => /\ MCB_IP4_ADDR_CMP(querier_addr, IfAddr) = 0
                     /\ "general_query" \in SentTypes
                     /\ Cardinality(GeneralQueryTimers) = 1

\* no query was processed for 125.5 s: the timer armed at the start fires
\* and the delay mode interface is the querier
C14_Witness ==
    /\ igmp_querier_mode = QUERIER_MODE_DELAY
    /\ obs.event.what = "igmp_querier_timeout"
    /\ obs.queries_since_activation = 1
    /\ now = DELAY_ACTIVATION_MILLIS
    /\ MCB_IP4_ADDR_CMP(querier_addr, IfAddr) = 0
    /\ "general_query" \in SentTypes

\* C15 as stated: when the interface is the active querier in the defer mode
\* and a query from a remote address R, lower or higher than the local
\* address, is processed, the general query timer is cancelled, R becomes the
\* current querier and an other-querier-present timer of
\* qrv * query_interval + response_interval / 2 is armed (in milliseconds:
\* qrv * interval_sec * 1000 + response_interval_tenths * 100 / 2).
C15_DeferYield ==
    [][(/\ igmp_querier_mode = QUERIER_MODE_DEFER
        /\ MCB_IP4_ADDR_CMP(querier_addr, IfAddr) = 0
        /\ obs'.event.kind = "receive"
        /\ obs'.event.what = "query"
        /\ obs'.q_last # AllOnes)
       => /\ GeneralQueryTimers' = {}
          /\ querier_addr' = obs'.q_last
          /\ Cardinality(QuerierTimeoutTimers') = 1
          /\ \A i \in QuerierTimeoutTimers' :
                 /\ timer_list'[i].millis =
                        querier_robustness' * querier_interval_sec' * 1000
                            + querier_response_interval_tenths' * 50
                 /\ timer_list'[i].deadline = now' + timer_list'[i].millis]_vars

\* C16: after any sequence of reports, leaves, queries and expiries the
\* number of dynamic entries of the interface, group_list_count -
\* group_list_fixed_limit, never exceeds non_configured_groups (and the
\* count never falls below the fixed limit).
C16_GroupTableBound ==
    /\ group_list_count >= group_list_fixed_limit
    /\ group_list_count - group_list_fixed_limit <= NonConfiguredGroups
    /\ group_list_count <= Len(group_list)

DynamicSlots == (group_list_fixed_limit + 1)..group_list_count

TableAddresses == {group_list[g].mcast_addr : g \in 1..group_list_count}

\* every dynamic slot holds an active group and a report for one more group
\* has just been processed
C16_Witness ==
    /\ obs.event.what = "v2_report"
    /\ obs.event.group = DynGroupB
    /\ DynGroupB \notin TableAddresses
    /\ group_list_count - group_list_fixed_limit = NonConfiguredGroups
    /\ \A g \in DynamicSlots : group_list[g].active # 0

\* the group of a report is new: not link-local, not a configured group and
\* not an active dynamic group
NewGroup(mcast_addr) ==
    /\ ~(mcast_addr[1] = 224 /\ mcast_addr[2] = 0 /\ mcast_addr[3] = 0)
    /\ \A g \in 1..group_list_fixed_limit : group_list[g].mcast_addr # mcast_addr
    /\ \A g \in DynamicSlots :
           group_list[g].active # 0 => group_list[g].mcast_addr # mcast_addr

\* the inactive slots among all the dynamic slots allocated
InactiveSlots ==
    {g \in (group_list_fixed_limit + 1)..Len(group_list) : group_list[g].active = 0}

FirstInactiveSlot == CHOOSE g \in InactiveSlots : \A h \in InactiveSlots : g <= h

LeaveConditions(mcast_addr) ==
    /\ MCB_IP4_ADDR_CMP(querier_addr, IfAddr) = 0
    /\ \E g \in 1..group_list_count :
           /\ group_list[g].mcast_addr = mcast_addr
           /\ group_list[g].active # 0
           /\ group_list[g].v1_host_present = 0
           /\ group_list[g].group_queries_remaining = 0

\* C18: a leave is acted on only when the local interface is the elected
\* querier, the group is active, no v1 host is present and
\* group_queries_remaining is 0: it then starts the group specific query
\* series. Otherwise the active flag, the timers and group_queries_remaining
\* of every group are unchanged and no query is emitted.
C18_LeavePreconditions ==
    [][(obs'.event.kind = "receive" /\ obs'.event.what = "v2_leave")
       => IF LeaveConditions(obs'.event.group)
          THEN /\ \E i \in 1..Len(sent') :
                      /\ sent'[i].type = "group_query"
                      /\ sent'[i].group = obs'.event.group
               /\ \A g \in 1..Len(group_list) : group_list'[g].active = group_list[g].active
          ELSE /\ \A g \in 1..Len(group_list) :
                      /\ group_list'[g].active = group_list[g].active
                      /\ group_list'[g].group_queries_remaining
                             = group_list[g].group_queries_remaining
               /\ timer_list' = timer_list
               /\ sent' = <<>>]_vars

\* a leave for an active group with a v1 host present has just been ignored
\* by the querier
C18_Witness ==
    /\ obs.event.what = "v2_leave"
    /\ obs.event.group = FixedGroup
    /\ MCB_IP4_ADDR_CMP(querier_addr, IfAddr) = 0
    /\ group_list[1].active # 0
    /\ group_list[1].v1_host_present # 0
    /\ group_list[1].group_queries_remaining = 0
    /\ sent = <<>>

LinkScope(mcast_addr) == mcast_addr[1] = 224 /\ mcast_addr[2] = 0 /\ mcast_addr[3] = 0

NoLinkScopeRecord == \A g \in 1..Len(group_list) : ~LinkScope(group_list[g].mcast_addr)

\* the timers of the group records, in the order of the timer list
GroupTimers == SelectSeq(timer_list, LAMBDA t : t.closure # IfClosure)

\* C20: no group record ever holds an address of 224.0.0.0/24, and a report,
\* leave or query naming such a group neither creates nor modifies a group
\* entry and arms no group timer: the step leaves the group list, its count
\* and the timers of the groups as they were.
C20_LinkScopeFilter ==
    [][/\ NoLinkScopeRecord
       /\ NoLinkScopeRecord'
       /\ (obs'.event.kind = "receive" /\ LinkScope(obs'.event.group))
              => /\ group_list' = group_list
                 /\ group_list_count' = group_list_count
                 /\ GroupTimers' = GroupTimers]_vars

\* a report for 224.0.0.251 was processed while a dynamic slot was free, and
\* no slot was taken
C20_Witness ==
    /\ obs.event.what = "v2_report"
    /\ LinkScope(obs.event.group)
    /\ group_list_count = group_list_fixed_limit
    /\ \A g \in 1..Len(group_list) : group_list[g].active = 0
    /\ GroupTimers = <<>>

AdvertisementTimers == TimersOf(timer_list, "igmp_send_mrd_advertisement", IfClosure)

\* C21: processing an MRD solicitation emits exactly one advertisement at
\* once and leaves exactly one advertisement timer pending, armed at that
\* moment (the one scheduled before is cancelled); at every moment after the
\* start of the interface exactly one advertisement timer is pending.
C21_OneAdvertisementTimer ==
    /\ Cardinality(AdvertisementTimers) = 1
    /\ obs.event.what = "mrd_solicitation"
           => /\ sent = <<[type |-> "mrd_advertisement"]>>
              /\ \A i \in AdvertisementTimers :
                     timer_list[i].deadline = now + timer_list[i].millis

\* a solicitation was answered while the timer table was full
C21_Witness ==
    /\ obs.event.what = "mrd_solicitation"
    /\ sent = <<[type |-> "mrd_advertisement"]>>
    /\ Len(timer_list) = timer_list_allocated(1 + NonConfiguredGroups)
    /\ Cardinality(AdvertisementTimers) = 1

\* C22: the first advertisement is emitted at the start; the timer pending
\* after the first and after the second advertisement has a delay in
\* [0, 2000) ms, so that exactly MCB_MRD_INITIAL_COUNT - 1 further
\* advertisements follow at the short delay; the timer pending after the
\* third and every later advertisement has a delay in [19500, 20500) ms.
C22_InitialBurst ==
    /\ obs.advertisements >= 1
    /\ obs.event.kind = "start" => "mrd_advertisement" \in SentTypes /\ now = 0
    /\ \A i \in AdvertisementTimers :
           IF obs.advertisements < MCB_MRD_INITIAL_COUNT
           THEN /\ 0 <= timer_list[i].millis
                /\ timer_list[i].millis < MCB_MRD_INITIAL_INTERVAL * 1000
           ELSE /\ MCB_MRD_INTERVAL * 1000 - MCB_MRD_INTERVAL_JITTER <= timer_list[i].millis
                /\ timer_list[i].millis < MCB_MRD_INTERVAL * 1000 + MCB_MRD_INTERVAL_JITTER

\* the timer of the second short delay has fired at 1999 ms: the third
\* advertisement is out and the next one is scheduled 20499 ms later
C22_Witness ==
    /\ obs.event.what = "igmp_send_mrd_advertisement"
    /\ obs.advertisements = MCB_MRD_INITIAL_COUNT
    /\ now = 1999
    /\ \E i \in AdvertisementTimers : timer_list[i].millis = 20499

\* C23: a call of interface_activate_outbound(h) for an interface that is
\* not outbound active sets h.outbound_active to 1; a call for an interface
\* that is outbound active (a repeated call with no deactivation in between)
\* leaves every flag of every interface of the bridge unchanged.
C23_IdempotentActivation ==
    [][obs'.event.kind = "join"
       => IF interface_list[obs'.event.closure].outbound_active # 0
          THEN interface_list' = interface_list
          ELSE /\ interface_list'[obs'.event.closure].outbound_active = 1
               /\ \A p \in 1..Len(interface_list) :
                      p # obs'.event.closure
                          => interface_list'[p].outbound_active
                                 = interface_list[p].outbound_active]_vars

\* interface_activate_outbound has been called again for an interface that
\* was outbound active, in a bridge with a dynamic inbound peer
C23_Witness ==
    /\ obs.event.kind = "join"
    /\ obs.event.repeated
    /\ interface_list[obs.event.closure].outbound_active = 1
    /\ \E p \in 1..Len(interface_list) :
           /\ p # obs.event.closure
           /\ interface_list[p].inbound_configuration = INTERFACE_CONFIG_DYNAMIC
           /\ interface_list[p].inbound_active = 1

\* C24: timecode_8bit_decode(c) is c for c < 128 and
\* ((c & 0x0f) | 0x10) << (((c >> 4) & 0x07) + 3) otherwise;
\* timecode_16bit_decode(c) is c for c < 32768 and
\* ((c & 0x0fff) | 0x1000) << (((c >> 12) & 0x07) + 3) otherwise; the value
\* is the mathematical one, the return type truncates nothing.
C24_TimecodeDecoding ==
    obs.event.kind = "decode"
        => LET c == obs.event.closure
           IN  /\ obs.event.what = "timecode_8bit_decode"
                      => obs.event.value =
                             IF c < 128 THEN c
                             ELSE ((c % 16) + 16) * Pow2(((c \div 16) % 8) + 3)
               /\ obs.event.what = "timecode_16bit_decode"
                      => obs.event.value =
                             IF c < 32768 THEN c
                             ELSE ((c % 4096) + 4096) * Pow2(((c \div 4096) % 8) + 3)

\* the largest 16-bit code decodes to 0x1fff << 10, more than 16 bits hold
C24_Witness ==
    /\ obs.event.kind = "decode"
    /\ obs.event.what = "timecode_16bit_decode"
    /\ obs.event.closure = 65535
    /\ obs.event.value = 8387584

\* the record stops the report: it is cut short or of an unknown type
StopsReport(rec) ==
    \/ rec.overrun
    \/ rec.type \notin MCB_REC_MODE_IS_INCLUDE..MCB_REC_BLOCK_OLD_SOURCES

\* the records from index on applied in packet order up to the first one
\* that stops the report: a join, a leave, or no membership change for
\* BLOCK_OLD_SOURCES with sources
RECURSIVE RecordsApplied(_, _, _)
RecordsApplied(s, records, index) ==
    IF index > Len(records) \/ StopsReport(records[index]) THEN s
    ELSE LET rec == records[index]
             found == igmp_interface_find_group(s, rec.group)
             is_join == \/ rec.type \in {MCB_REC_MODE_IS_EXCLUDE, MCB_REC_CHANGE_TO_EXCLUDE,
                                         MCB_REC_ALLOW_NEW_SOURCES}
                        \/ /\ rec.type \in {MCB_REC_MODE_IS_INCLUDE, MCB_REC_CHANGE_TO_INCLUDE}
                           /\ rec.num_srcs # 0
             is_leave == /\ rec.type \in {MCB_REC_MODE_IS_INCLUDE, MCB_REC_CHANGE_TO_INCLUDE,
                                          MCB_REC_BLOCK_OLD_SOURCES}
                         /\ rec.num_srcs = 0
             applied == IF found.g = 0 THEN found.s
                        ELSE IF is_join THEN igmp_join_common(found.s, found.g)
                        ELSE IF is_leave THEN igmp_leave_common(found.s, found.g)
                        ELSE found.s
         IN  RecordsApplied(applied, records, index + 1)

\* C25 as stated: the records of an IGMPv3 report are applied in packet
\* order; processing stops at the first record that is cut short or of an
\* unknown type, nothing of that or of a later record is applied, and every
\* record of a known type before it is applied.
C25_ReportRecords ==
    [][(obs'.event.kind = "receive" /\ obs'.event.what = "v3_report")
       => LET expected == RecordsApplied(State(now'), obs'.event.records, 1)
          IN  /\ group_list' = expected.group_list
              /\ group_list_count' = expected.group_list_count
              /\ timer_list' = expected.timer_list
              /\ interface_list' = expected.il
              /\ sent' = expected.sent]_vars

\* the query is neither dropped by igmp_receive as the interface's own nor
\* ignored by the querier keeping its role
QueryProcessed(q) ==
    /\ MCB_IP4_ADDR_CMP(q.src, IfAddr) # 0
    /\ ~ /\ MCB_IP4_ADDR_CMP(q.src, querier_addr) # 0
         /\ MCB_IP4_ADDR_CMP(querier_addr, IfAddr) = 0
         /\ MCB_IP4_ADDR_CMP(q.src, IfAddr) > 0
         /\ igmp_querier_mode # QUERIER_MODE_DEFER

\* C26 as stated: after an IGMPv1/v2 query has been processed, the
\* robustness, the query interval and the response interval are the defaults
\* (2, 125 s, 10 s), whatever earlier IGMPv3 queries set.
C26_DefaultsOnOldQueries ==
    [][(/\ obs'.event.kind = "receive"
        /\ obs'.event.what = "query"
        /\ obs'.event.query.v3_flag = 0
        /\ QueryProcessed(obs'.event.query))
       => /\ querier_robustness' = MCB_IGMP_ROBUSTNESS
          /\ querier_interval_sec' = MCB_IGMP_QUERY_INTERVAL
          /\ querier_response_interval_tenths' = MCB_IGMP_RESPONSE_INTERVAL]_vars

\* C27 as stated: querier_robustness is at least 1 at all times, whatever
\* queries are observed, an IGMPv3 query with any value of QRV included.
C27_RobustnessAtLeastOne == querier_robustness >= 1

\* C28: when the querier timeout fires in a mode other than never, the
\* interface becomes the querier as on a quick start: the querier address is
\* the local address, the parameters are the defaults, the first general
\* query of the startup series goes out at once and the next one is due a
\* quarter of the query interval later.
C28_TimeoutActivates ==
    [][(/\ obs'.event.kind = "timer"
        /\ obs'.event.what = "igmp_querier_timeout"
        /\ igmp_querier_mode # QUERIER_MODE_NEVER)
       => /\ MCB_IP4_ADDR_CMP(querier_addr', IfAddr) = 0
          /\ querier_robustness' = MCB_IGMP_ROBUSTNESS
          /\ querier_interval_sec' = MCB_IGMP_QUERY_INTERVAL
          /\ querier_response_interval_tenths' = MCB_IGMP_RESPONSE_INTERVAL
          /\ querier_lastmbr_interval_tenths' = MCB_IGMP_LASTMBR_INTERVAL
          /\ sent' = <<[type |-> "general_query"]>>
          /\ startup_queries_remaining' = MCB_IGMP_ROBUSTNESS - 2
          /\ \E i \in 1..Len(timer_list') :
                 /\ TimersOf(timer_list', "igmp_send_general_query", IfClosure) = {i}
                 /\ timer_list'[i].deadline = now' + (MCB_IGMP_QUERY_INTERVAL * 1000) \div 4
          /\ TimersOf(timer_list', "igmp_querier_timeout", IfClosure) = {}]_vars

\* the timeout of a querier whose IGMPv3 queries had set other parameters has
\* just made the interface the querier
C28_Witness ==
    /\ obs.event.what = "igmp_querier_timeout"
    /\ igmp_querier_mode = QUERIER_MODE_DELAY
    /\ MCB_IP4_ADDR_CMP(obs.q_base, IfAddr) = 0
    /\ MCB_IP4_ADDR_CMP(querier_addr, IfAddr) = 0
    /\ querier_robustness = MCB_IGMP_ROBUSTNESS
    /\ now < DELAY_ACTIVATION_MILLIS
    /\ sent = <<[type |-> "general_query"]>>

\* C29: when the interface is the querier in a mode other than defer, a query
\* from a remote source with a higher address changes nothing: the querier
\* address, the parameters, the counters, every timer and every group record
\* stay as they were, and nothing is sent.
C29_KeepsQuerierRole ==
    [][(/\ obs'.event.kind = "receive"
        /\ obs'.event.what = "query"
        /\ MCB_IP4_ADDR_CMP(querier_addr, IfAddr) = 0
        /\ igmp_querier_mode # QUERIER_MODE_DEFER
        /\ MCB_IP4_ADDR_CMP(obs'.event.query.src, IfAddr) > 0)
       => /\ UNCHANGED <<igmp_querier_mode, querier_addr, querier_robustness,
                         querier_interval_sec, querier_response_interval_tenths,
                         querier_lastmbr_interval_tenths, startup_queries_remaining,
                         mrd_initial_advertisements_remaining,
                         group_list, group_list_count, group_list_fixed_limit,
                         timer_list, interface_list>>
          /\ sent' = <<>>]_vars

\* the querier has just ignored an IGMPv3 query of a higher address that
\* carries other parameters than its own and names a group with members
C29_Witness ==
    /\ obs.event.kind = "receive"
    /\ obs.event.what = "query"
    /\ MCB_IP4_ADDR_CMP(obs.event.query.src, IfAddr) > 0
    /\ obs.event.query.v3_flag = 1
    /\ obs.event.query.s_flag = 0
    /\ obs.event.query.qrv # querier_robustness
    /\ obs.event.query.group = FixedGroup
    /\ group_list[1].active # 0
    /\ igmp_querier_mode = QUERIER_MODE_QUICK
    /\ MCB_IP4_ADDR_CMP(querier_addr, IfAddr) = 0
    /\ querier_robustness = MCB_IGMP_ROBUSTNESS
    /\ GeneralQueryTimers # {}
    /\ QuerierTimeoutTimers = {}

\* the slots of the active groups with the address
ActiveSlots(mcast_addr) ==
    {g \in 1..group_list_count :
        group_list[g].mcast_addr = mcast_addr /\ group_list[g].active # 0}

\* the membership timers of the groups other than those of slots, in the
\* order of the timer list
MembershipTimers(tl, slots) ==
    SelectSeq(tl, LAMBDA t : t.callback = "igmp_group_timeout" /\ t.closure \notin slots)

\* C30 as stated: a processed group specific query with the S flag clear for
\* an active group replaces the membership timer of that group by one of
\* robustness * response interval + 10 ms; a query that is general, has the
\* S flag set or names a group that is inactive or unknown leaves the
\* membership timers as they were; no query changes an active flag.
C30_GroupQuery ==
    [][(/\ obs'.event.kind = "receive"
        /\ obs'.event.what = "query"
        /\ QueryProcessed(obs'.event.query))
       => LET q == obs'.event.query
              slots == ActiveSlots(q.group)
          IN  /\ \A g \in 1..Len(group_list) : group_list'[g].active = group_list[g].active
              /\ IF /\ MCB_IP4_ADDR_CMP(q.group, any_addr) # 0
                    /\ ~(q.v3_flag = 1 /\ q.s_flag = 1)
                    /\ slots # {}
                 THEN /\ \A g \in slots :
                             \E i \in 1..Len(timer_list') :
                                 /\ TimersOf(timer_list', "igmp_group_timeout", g) = {i}
                                 /\ timer_list'[i].deadline
                                        = now' + querier_robustness'
                                                   * querier_response_interval_tenths' * 100
                                               + GRACE_MILLIS
                      /\ MembershipTimers(timer_list', slots) = MembershipTimers(timer_list, slots)
                 ELSE MembershipTimers(timer_list', {}) = MembershipTimers(timer_list, {})]_vars

\* C31 as stated: a leave or a group specific query that names a group
\* absent from the table leaves the table as it was: group_list_count and the
\* address of every slot.
C31_OnlyReportsCreate ==
    [][(/\ obs'.event.kind = "receive"
        /\ obs'.event.what \in {"v2_leave", "query"}
        /\ MCB_IP4_ADDR_CMP(obs'.event.group, any_addr) # 0
        /\ obs'.event.group \notin TableAddresses)
       => /\ group_list_count' = group_list_count
          /\ \A g \in 1..Len(group_list) :
                 group_list'[g].mcast_addr = group_list[g].mcast_addr]_vars

\* the membership timers of the slot, in the order of the timer list
SlotMembershipTimers(tl, g) ==
    SelectSeq(tl, LAMBDA t : t.callback = "igmp_group_timeout" /\ t.closure = g)

\* C32 as stated: a leave accepted for the registered group arms its membership timer
\* with robustness * last member interval + 10 ms; no step other than a
\* report or a query for the group or the expiry itself touches that timer;
\* when it fires the group becomes inactive and interface_deactivate_outbound
\* is called for every subscriber of the group.
C32_LeaveLeadsToExpiry ==
    [][/\ (/\ obs'.event.kind = "receive"
           /\ obs'.event.what = "v2_leave"
           /\ obs'.event.group = FixedGroup
           /\ LeaveConditions(FixedGroup))
          => \E i \in 1..Len(timer_list') :
                 /\ TimersOf(timer_list', "igmp_group_timeout", 1) = {i}
                 /\ timer_list'[i].deadline
                        = now' + querier_robustness * querier_lastmbr_interval_tenths * 100
                               + GRACE_MILLIS
       /\ (/\ ~(obs'.event.kind = "receive" /\ obs'.event.group = FixedGroup)
           /\ ~(obs'.event.what = "igmp_group_timeout" /\ obs'.event.closure = 1))
          => SlotMembershipTimers(timer_list', 1) = SlotMembershipTimers(timer_list, 1)
       /\ (obs'.event.what = "igmp_group_timeout" /\ obs'.event.closure = 1)
          => /\ group_list'[1].active = 0
             /\ now' = timer_list[1].deadline
             /\ interface_list'
                    = deactivate_all(interface_list, group_list[1].bridge_interface_list, 1)]_vars

\* the timers of the list other than those of the pair, in their order
OtherTimers(tl, callback, closure) ==
    SelectSeq(tl, LAMBDA t : ~(t.callback = callback /\ t.closure = closure))

\* C33 as stated: right after evm_del_timer(callback, closure) no timer of
\* that pair is left in the list, and the other timers keep their order.
C33_DelRemovesEvery ==
    [][obs'.event.what = "evm_del_timer"
       => /\ TimersOf(timer_list', obs'.event.callback, obs'.event.closure) = {}
          /\ OtherTimers(timer_list', obs'.event.callback, obs'.event.closure)
                 = OtherTimers(timer_list, obs'.event.callback, obs'.event.closure)]_vars

\* the slots whose membership timer is due at the time
DueSlots(tl, clock) ==
    {tl[i].closure : i \in {j \in 1..Len(tl) : /\ tl[j].callback = "igmp_group_timeout"
                                               /\ tl[j].deadline = clock}}

\* C34: a packet that is ready when the wait ends is handled before the
\* expired timers of that iteration: a v1 or v2 report for an active group
\* read at the very time the membership timer of the group is due removes
\* that timer, so that the group stays active and has no membership timer
\* left to expire in the iteration.
C34_IngressBeforeTimers ==
    [][(/\ obs'.event.kind = "receive"
        /\ obs'.event.what \in {"v1_report", "v2_report"})
       => \A g \in DueSlots(timer_list, now') :
              (group_list[g].active # 0 /\ group_list[g].mcast_addr = obs'.event.group)
                  => /\ group_list'[g].active # 0
                     /\ TimersOf(timer_list', "igmp_group_timeout", g) # {}
                     /\ \A i \in TimersOf(timer_list', "igmp_group_timeout", g) :
                            timer_list'[i].deadline > now']_vars

\* a v2 report for the configured group has just been read at the time the
\* membership timer shortened by a leave was due, 2.01 s after the leave
C34_Witness ==
    /\ obs.event.kind = "receive"
    /\ obs.event.what = "v2_report"
    /\ obs.event.group = FixedGroup
    /\ now = MCB_IGMP_ROBUSTNESS * MCB_IGMP_LASTMBR_INTERVAL * 100 + GRACE_MILLIS
    /\ obs.last_expired = 0
    /\ group_list[1].active # 0
    /\ \E i \in 1..Len(timer_list) :
           /\ TimersOf(timer_list, "igmp_group_timeout", 1) = {i}
           /\ timer_list[i].deadline = now + membership_millis(State(now))

\* C35: in a mode other than never, after every completed callback exactly
\* one of the general query timer and the querier timeout timer is pending:
\* never both and never neither.
C35_OneQuerierTimer ==
    igmp_querier_mode # QUERIER_MODE_NEVER
        => Cardinality(GeneralQueryTimers) + Cardinality(QuerierTimeoutTimers) = 1

\* a quick mode interface has just yielded to a lower address: its general
\* query timer is gone and the querier timeout is pending
C35_Witness ==
    /\ igmp_querier_mode = QUERIER_MODE_QUICK
    /\ obs.event.kind = "receive"
    /\ obs.event.what = "query"
    /\ MCB_IP4_ADDR_CMP(obs.q_base, IfAddr) = 0
    /\ MCB_IP4_ADDR_CMP(querier_addr, LowAddr) = 0
    /\ GeneralQueryTimers = {}
    /\ Cardinality(QuerierTimeoutTimers) = 1

\* C36 as stated: whenever a group specific query is emitted the querier
\* address of the interface is its own address and the group queried is
\* active, also when the interface yields during a series of such queries.
C36_QuerierOnlyEmits ==
    \A i \in 1..Len(sent) :
        sent[i].type = "group_query"
            => /\ MCB_IP4_ADDR_CMP(querier_addr, IfAddr) = 0
               /\ group_list[sent[i].slot].active # 0

\* the dynamic slots into which the step has placed the address of a group
\* they did not hold before
PlacedSlots(mcast_addr) ==
    {g \in (group_list_fixed_limit + 1)..Len(group_list) :
        /\ group_list'[g].mcast_addr = mcast_addr
        /\ group_list[g].mcast_addr # mcast_addr}

\* C37 as stated: a dynamic slot that receives the address of a new group,
\* fresh or reused, comes with v1_host_present 0, group_queries_remaining 0
\* and no timer bound to it: nothing of the group it held before is left.
C37_FreshSlot ==
    [][obs'.event.kind = "receive"
       => \A g \in PlacedSlots(obs'.event.group) :
              /\ group_list[g].v1_host_present = 0
              /\ group_list[g].group_queries_remaining = 0
              /\ \A i \in 1..Len(timer_list) : timer_list[i].closure # g]_vars

\* the slots of the group whose membership timer was shortened by a leave:
\* the group is active and its timer runs for robustness * last member
\* interval + 10 ms
ShortenedSlots(mcast_addr) ==
    {g \in 1..group_list_count :
        /\ group_list[g].mcast_addr = mcast_addr
        /\ group_list[g].active # 0
        /\ \E i \in TimersOf(timer_list, "igmp_group_timeout", g) :
               timer_list[i].millis
                   = querier_robustness * querier_lastmbr_interval_tenths * 100 + GRACE_MILLIS}

\* C38: a v1 or v2 report for a group read after a leave was accepted and
\* before the shortened membership timer has fired removes that timer and
\* arms one of (robustness * query interval + response interval) * 1000 ms:
\* the group stays active, and an active flag is cleared by nothing but the
\* expiry of the membership timer of its slot.
C38_JoinDuringSeries ==
    [][/\ (/\ obs'.event.kind = "receive"
           /\ obs'.event.what \in {"v1_report", "v2_report"})
          => \A g \in ShortenedSlots(obs'.event.group) :
                 /\ group_list'[g].active # 0
                 /\ \E i \in 1..Len(timer_list') :
                        /\ TimersOf(timer_list', "igmp_group_timeout", g) = {i}
                        /\ timer_list'[i].deadline
                               = now' + (querier_robustness * querier_interval_sec
                                            + querier_response_interval_tenths \div 10) * 1000
       /\ \A g \in 1..group_list_count :
              (group_list[g].active # 0 /\ group_list'[g].active = 0)
                  => /\ obs'.event.what = "igmp_group_timeout"
                     /\ obs'.event.closure = g
                     /\ now' = timer_list[1].deadline]_vars

\* a v2 report for the configured group has just been read while the series
\* of group specific queries started by a leave is under way: the slot has
\* one membership timer, a full membership interval ahead
C38_Witness ==
    /\ obs.event.kind = "receive"
    /\ obs.event.what = "v2_report"
    /\ obs.event.group = FixedGroup
    /\ group_list[1].active # 0
    /\ group_list[1].group_queries_remaining # 0
    /\ \E i \in 1..Len(timer_list) :
           /\ TimersOf(timer_list, "igmp_group_timeout", 1) = {i}
           /\ timer_list[i].deadline
                  = now + (querier_robustness * querier_interval_sec
                              + querier_response_interval_tenths \div 10) * 1000

\* C39: after initialization and after every call of
\* interface_activate_outbound and interface_deactivate_outbound, an
\* interface with a dynamic inbound configuration has inbound_active 1
\* exactly when another interface of the bridge has outbound_active 1.
C39_DynamicInboundFollowsPeers ==
    \A p \in 1..Len(interface_list) :
        interface_list[p].inbound_configuration = INTERFACE_CONFIG_DYNAMIC
            => (interface_list[p].inbound_active = 1
                   <=> \E q \in 1..Len(interface_list) :
                           q # p /\ interface_list[q].outbound_active = 1)

\* the group of a registered interface has just expired and the interface
\* is inactive, yet a dynamic inbound interface stays active for another
\* outbound interface that is still active
C39_Witness ==
    /\ obs.event.what = "igmp_group_timeout"
    /\ Len(interface_list) > 0
    /\ obs.event.closure \in 1..Len(interface_list)
    /\ interface_list[obs.event.closure].outbound_active = 0
    /\ interface_list[obs.event.closure].outbound_configuration = INTERFACE_CONFIG_DYNAMIC
    /\ \E p \in 1..Len(interface_list) :
           /\ p # obs.event.closure
           /\ interface_list[p].inbound_configuration = INTERFACE_CONFIG_DYNAMIC
           /\ interface_list[p].inbound_active = 1
           /\ \E q \in 1..Len(interface_list) :
                  /\ q # p
                  /\ interface_list[q].outbound_configuration = INTERFACE_CONFIG_DYNAMIC
                  /\ interface_list[q].outbound_active = 1

\* C40: bridge_receive never sends a datagram out of the interface it was
\* read from, and sends it to no interface at all when the inbound_active
\* flag of the receiving interface is 0.
C40_NoReflection ==
    (obs.event.kind = "receive" /\ obs.event.what = "datagram")
        => /\ \A i \in 1..Len(sent) :
                  sent[i].type = "datagram"
                      => /\ sent[i].from = obs.event.closure
                         /\ sent[i].to # sent[i].from
           /\ interface_list[obs.event.closure].inbound_active = 0 => sent = <<>>

\* a datagram has just been read from an interface that is both inbound and
\* outbound active: it went to another outbound interface and not back
C40_Witness ==
    /\ obs.event.kind = "receive"
    /\ obs.event.what = "datagram"
    /\ interface_list[obs.event.closure].inbound_active = 1
    /\ interface_list[obs.event.closure].outbound_active = 1
    /\ Len(sent) > 0
    /\ \A i \in 1..Len(sent) : sent[i].to # obs.event.closure

====
